---- MODULE Spec2Model ----
(***************************************************************************)
(* A model of the serverless-to-express bridge (expressWXServer,           *)
(* getExpressParams) and of the session middleware (Cookie, MemoryStore,   *)
(* Session).                                                               *)
(*                                                                         *)
(* Text is modelled as a sequence of lexical units: a JS string is a       *)
(* sequence of TLA+ strings, each one character or one indivisible lexeme  *)
(* (a quoted JSON string, a literal such as null).  Concatenation of JS    *)
(* strings is concatenation of sequences.                                  *)
(*                                                                         *)
(* The specifications share the variables; each leaves the variables of    *)
(* the other parts at their idle values:                                   *)
(*   SpecParams      getExpressParams applied to every event of a bounded  *)
(*                   set                                                   *)
(*   SpecBridge      one invocation of expressWXServer                     *)
(*   SpecSession     the session store, its cookies and the clock          *)
(*   SpecMiddleware  the middleware returned by session()                  *)
(*   SpecStores      two middlewares, each with its own MemoryStore        *)
(*   SpecSecure      isSecure applied to every request of a bounded set    *)
(*   SpecCtor        the Session constructor                               *)
(*   SpecAsm         initExpressApp called on one application              *)
(*   SpecDispatch    expressWXServer dispatching through applications      *)
(*                   that extend prototypes, register routes and mount     *)
(*                   one another                                           *)
(*   SpecOverride    a parent application and the one mounted in it, with  *)
(*                   the route "/sub/foo" on the parent                    *)
(*   SpecRoute       a param handler configured through initExpressApp     *)
(*   SpecSend        res.send called by a route handler                    *)
(*   SpecCapture     the wrapped write and end of two invocations of one   *)
(*                   application                                           *)
(*   SpecStoreOps    the operations of one MemoryStore without callbacks,  *)
(*                   while time passes                                     *)
(*   SpecCallbacks   the operations of one MemoryStore with callbacks;     *)
(*                   SpecCallbacksFair adds that the event loop runs every *)
(*                   callback handed to it                                 *)
(*   SpecGet         the same operations and callbacks at a fixed time,    *)
(*                   with cookies that have expired by then                *)
(*   SpecReload      Session.reload and MemoryStore.createSession          *)
(***************************************************************************)
EXTENDS Integers, Sequences, FiniteSets, TLC

VARIABLES
  \* --- getExpressParams
  event,        \* the invocation event handed to getExpressParams
  params,       \* the record getExpressParams returned
  normalized,   \* TRUE once getExpressParams has returned
  \* --- expressWXServer
  pcInv,        \* where the async function expressWXServer stands
  configureFn,  \* what options.configureFn does: "none", "ok", "throws", "rejects"
  eventGiven,   \* FALSE when options.event is undefined
  wxContext,    \* options.wxContext
  promise,      \* state of the promise expressWXServer returned
  outcome,      \* the value that promise resolved to
  resBody,      \* the closure variable resBody
  statusCode,   \* res.statusCode
  endCalls,     \* number of calls of the wrapped res.end so far
  calls,        \* number of write/end calls so far (bounded by MaxCalls)
  \* --- session middleware
  now,          \* what Date.now() returns, in ms
  cookieOptions,\* the cookie options session(options) was given
  sessions,     \* MemoryStore.sessions: session id -> Session object (0: no entry)
  sessObj,      \* the Session objects, by reference
  cookieObj,    \* the Cookie objects, by reference
  requested,    \* history: the maxAge each Cookie was constructed with
  req,          \* the request: its sessionId and its session (0: none)
  scheduled,    \* the arguments (id, session) of the callback get queued last
  lastOp,       \* history: the last operation, and the store entry it found
  \* --- the middleware function session() returns
  storeReady,   \* the closure variable storeReady
  emitted,      \* signals the store emitted whose listeners have not run yet
  mwReq,        \* the request in the middleware: has it a session, next() calls
  served,       \* number of requests the middleware has returned for
  \* --- two middlewares, their stores and their requests
  clock,        \* what Date.now() returns
  mwCookie,     \* per middleware: the maxAge of its cookie options (0: none)
  stores,       \* per MemoryStore: sessions, session id -> Session (0: no entry)
  objs,         \* the Session objects, by reference: id, owning request, expires
  reqOf,        \* per middleware: its request's sessionId and session
  ticks,        \* callbacks handed to process.nextTick, oldest first
  \* --- isSecure
  secReq,       \* the request given to isSecure: secure, header
  trustProxy,   \* the trustProxy given to isSecure
  secureResult, \* what isSecure returned ("none" before the call)
  \* --- new Session(req, session)
  ctorSessionId,\* req.sessionId of the request given to the constructor
  ctorStored,   \* the stored data given to the constructor, field -> value
  ctorInstance, \* the fields of the constructed instance
  \* --- initExpressApp
  asmConfig,    \* the configs given to initExpressApp (the same at every call)
  asmPc,        \* where the running call of initExpressApp stands
  asmApp,       \* the application: settings, param handlers, listeners, stack
  asmCalls,     \* number of calls of initExpressApp that have returned
  asmFirst,     \* history: the application as the first call returned it
  \* --- dispatch through applications
  nodeEnv,      \* process.env.NODE_ENV, the env setting of every application
  apps,         \* per application: body parser, extension, route, mounted app
  inv,          \* the invocation: its state, application, event and outcome
  \* --- the operations of one MemoryStore and their callbacks
  opNow,        \* what Date.now() returns
  opCookies,    \* the Cookie objects, by reference: expires (0: none)
  opObjs,       \* the Session objects, by reference: data and cookie
  opSessions,   \* store.sessions: session id -> Session (0: no entry)
  opTicks,      \* callbacks handed to process.nextTick, oldest first
  opImmediates, \* callbacks handed to setImmediate, oldest first
  opCalls,      \* number of calls made with a callback
  opRuns,       \* per call made with a callback: how often it has run
  opLast,       \* history: the last call or callback, and what it found
  \* --- Session.reload and MemoryStore.createSession
  rlNow,        \* what Date.now() returns
  rlCookie,     \* the cookie of the session of the request
  rlStored,     \* the store holds the session under its id
  rlReq,        \* req.session: the session generated, or one rebuilt
  rlPending,    \* the callbacks of store.get that wait, with their arguments
  rlLast,       \* history: the last operation and what it was given
  \* --- res.send of the response the bridge creates
  sdReq,        \* the request: its method, and whether its validators match
  sdStatus,     \* res.statusCode
  sdHeaders,    \* the names of the headers set on the response
  sdPc,         \* "handler" until send is called, then "sent"
  sdEnded,      \* what send passed to end
  sdOutcome,    \* what the promise of the invocation resolved with
  sdLast,       \* history: what send was given and whether it found req.fresh
  \* --- a param handler configured through initExpressApp
  rpParam,      \* the params entry: its name or names
  rpRoutes,     \* the routes registered with app.get, in order
  rpInv,        \* the invocation: its path, what ran and its outcome
  \* --- the wrapped write and end of two invocations of one application
  cpBody,       \* the closure variables resBody, by accumulator
  cpStatus,     \* per invocation: res.statusCode
  cpPromise,    \* per invocation: "pending" or "resolved"
  cpOutcome,    \* per invocation: what its promise resolved with
  cpEnds,       \* per invocation: the number of calls of end
  cpWire,       \* per invocation: the units the unwrapped response received
  cpGhost,      \* history per invocation: the chunks passed up to the first
                \* end, and the status at that end
  cpCalls       \* the number of calls of write and end made

paramVars == <<event, params, normalized>>
bridgeVars == <<pcInv, configureFn, eventGiven, wxContext, promise, outcome,
                resBody, statusCode, endCalls, calls>>
sessionVars == <<now, cookieOptions, sessions, sessObj, cookieObj, requested,
                 req, scheduled, lastOp>>
mwVars == <<storeReady, emitted, mwReq, served>>
\* the variables of the parts added to the first three
storeVars == <<clock, mwCookie, stores, objs, reqOf, ticks>>
secureVars == <<secReq, trustProxy, secureResult>>
ctorVars == <<ctorSessionId, ctorStored, ctorInstance>>
asmVars == <<asmConfig, asmPc, asmApp, asmCalls, asmFirst>>
dispatchVars == <<nodeEnv, apps, inv>>
opsVars == <<opNow, opCookies, opObjs, opSessions, opTicks, opImmediates,
            opCalls, opRuns, opLast>>
coreVars == <<paramVars, bridgeVars, sessionVars>>
baseVars == <<coreVars, mwVars, storeVars, secureVars, ctorVars, asmVars,
              dispatchVars>>
\* the parts added after these, each with a specification of its own
reloadVars == <<rlNow, rlCookie, rlStored, rlReq, rlPending, rlLast>>
sendVars == <<sdReq, sdStatus, sdHeaders, sdPc, sdEnded, sdOutcome, sdLast>>
routeVars == <<rpParam, rpRoutes, rpInv>>
captureVars == <<cpBody, cpStatus, cpPromise, cpOutcome, cpEnds, cpWire,
                 cpGhost, cpCalls>>
lateVars == <<opsVars, reloadVars, sendVars, routeVars, captureVars>>
\* what the actions of each later part leave alone
opsRest == <<baseVars, reloadVars, sendVars, routeVars,
  captureVars>>
reloadRest == <<baseVars, opsVars, sendVars, routeVars,
  captureVars>>
sendRest == <<baseVars, opsVars, reloadVars, routeVars,
  captureVars>>
routeRest == <<baseVars, opsVars, reloadVars, sendVars,
  captureVars>>
captureRest == <<baseVars, opsVars, reloadVars, sendVars, routeVars>>
extVars == <<mwVars, storeVars, secureVars, ctorVars, asmVars, dispatchVars,
             lateVars>>
vars == <<coreVars, extVars>>

(***************************************************************************)
(* JavaScript values as tagged records [t, v]; v is always a sequence of   *)
(* units so that any two values can be compared.                           *)
(***************************************************************************)
Undefined == [t |-> "undefined", v |-> <<>>]
Null == [t |-> "null", v |-> <<>>]
Str(s) == [t |-> "string", v |-> s]
Num(d) == [t |-> "number", v |-> d]
Bool(b) == [t |-> "boolean", v |-> IF b THEN <<"true">> ELSE <<"false">>]
Obj(keys) == [t |-> "object", v |-> keys]
Arr(items) == [t |-> "array", v |-> items]

\* typeof x
TypeOf(x) == IF x.t \in {"null", "object", "array"} THEN "object" ELSE x.t

\* the truthiness of x, as !x and !!x read it
Truthy(x) ==
  CASE x.t = "undefined" -> FALSE
    [] x.t = "null" -> FALSE
    [] x.t = "string" -> x.v # <<>>
    [] x.t = "number" -> x.v # <<"0">>
    [] x.t = "boolean" -> x.v = <<"true">>
    [] OTHER -> TRUE

\* String.prototype.toUpperCase on the letters the model uses
UpperChar(c) ==
  CASE c = "g" -> "G"
    [] c = "e" -> "E"
    [] c = "t" -> "T"
    [] OTHER -> c
toUpperCase(s) == [i \in 1..Len(s) |-> UpperChar(s[i])]

(***************************************************************************)
(* getExpressParams                                                        *)
(***************************************************************************)
\* JSON.stringify(body) at the only place line 417 can reach it: body is
\* falsy and typeof body is "object", that is body is null
stringifyFalsyObject(b) == <<"n", "u", "l", "l">>

\* let path = param.path, defaulted
path(param) ==
  IF ~Truthy(param.path) \/ TypeOf(param.path) # "string"
  THEN Str(<<"/">>) ELSE param.path

\* let httpMethod = param.httpMethod, defaulted, then upper-cased
httpMethod(param) ==
  LET m == IF ~Truthy(param.httpMethod) \/ TypeOf(param.httpMethod) # "string"
           THEN Str(<<"G", "E", "T">>) ELSE param.httpMethod
  IN Str(toUpperCase(m.v))

\* let headers = param.headers, defaulted
headers(param) ==
  IF ~Truthy(param.headers) \/ TypeOf(param.headers) # "object"
  THEN Obj(<<>>) ELSE param.headers

\* let queryStringParameters = param.queryStringParameters, defaulted
queryStringParameters(param) ==
  IF ~Truthy(param.queryStringParameters)
     \/ TypeOf(param.queryStringParameters) # "object"
  THEN Obj(<<>>) ELSE param.queryStringParameters

\* a slip that would leave a missing body undefined
body_KeepMissing(param) == param.body

\* let body = param.body, defaulted
body(param) ==
  LET b == param.body
  IN IF ~Truthy(b) \/ (TypeOf(b) # "string" /\ TypeOf(b) # "object")
     THEN (IF TypeOf(b) = "object" THEN Str(stringifyFalsyObject(b))
           ELSE Str(<<>>))
     ELSE b

\* const isBase64Encoded = !!param.isBase64Encoded
isBase64Encoded(param) == Bool(Truthy(param.isBase64Encoded))

getExpressParams(param) ==
  [path |-> path(param), httpMethod |-> httpMethod(param),
   headers |-> headers(param),
   queryStringParameters |-> queryStringParameters(param),
   body |-> body(param), isBase64Encoded |-> isBase64Encoded(param)]

\* The values an event field may hold: absent, and one value or more of
\* every type.
FieldValues ==
  {Undefined, Null, Str(<<>>), Str(<<"g", "e", "t">>), Num(<<"5">>),
   Bool(TRUE), Obj(<<"k">>), Arr(<<"x">>)}

Events ==
  [path : FieldValues, httpMethod : FieldValues, headers : FieldValues,
   queryStringParameters : FieldValues, body : FieldValues,
   isBase64Encoded : FieldValues]

EmptyEvent ==
  [path |-> Undefined, httpMethod |-> Undefined, headers |-> Undefined,
   queryStringParameters |-> Undefined, body |-> Undefined,
   isBase64Encoded |-> Undefined]

NoParams == EmptyEvent

ParamsIdle == event = EmptyEvent /\ params = NoParams /\ normalized = FALSE

InitParams == event \in Events /\ params = NoParams /\ normalized = FALSE

Normalize ==
  /\ ~normalized
  /\ params' = getExpressParams(event)
  /\ normalized' = TRUE
  /\ UNCHANGED <<event, bridgeVars, sessionVars, extVars>>

(***************************************************************************)
(* JSON over unit sequences.  A JSON value is a record [k, s, keys, vals]: *)
(* k its kind, s the text of a scalar, keys/vals the entries of an object  *)
(* (vals alone the elements of an array).                                  *)
(***************************************************************************)
Digits == {"1"}
Literals == {"true", "false", "null"}

\* the text between the quotes of a quoted-string unit
Unquote(u) ==
  CASE u = "\"a\"" -> <<"a">>
    [] u = "\"wxContext\"" -> <<"wxContext">>
    [] u = "\"openid\"" -> <<"openid">>
    [] u = "\"appid\"" -> <<"appid">>
    [] u = "\"unionid\"" -> <<"unionid">>
    [] u = "\"OID\"" -> <<"OID">>
    [] u = "\"AID\"" -> <<"AID">>
    [] u = "\"UID\"" -> <<"UID">>
    [] u = "\"0\"" -> <<"0">>
    [] u = "\"1\"" -> <<"1">>
    [] u = "\"2\"" -> <<"2">>
    [] u = "\"3\"" -> <<"3">>
    [] u = "\"4\"" -> <<"4">>
    [] u = "\"5\"" -> <<"5">>
    [] OTHER -> <<"?">>

StrUnits ==
  {"\"a\"", "\"wxContext\"", "\"openid\"", "\"appid\"", "\"unionid\"",
   "\"OID\"", "\"AID\"", "\"UID\"", "\"0\"", "\"1\"", "\"2\"", "\"3\"",
   "\"4\"", "\"5\""}

\* the quoted-string unit whose content is s
Quote(s) == CHOOSE u \in StrUnits : Unquote(u) = s

\* the property name of array index i (0-based), quoted
IndexKey(i) == <<"\"0\"", "\"1\"", "\"2\"", "\"3\"", "\"4\"", "\"5\"">>[i + 1]

JUndef == [k |-> "undefined", s |-> <<>>, keys |-> <<>>, vals |-> <<>>]
JNull == [k |-> "null", s |-> <<"null">>, keys |-> <<>>, vals |-> <<>>]
JBool(u) == [k |-> "boolean", s |-> <<u>>, keys |-> <<>>, vals |-> <<>>]
JNum(d) == [k |-> "number", s |-> d, keys |-> <<>>, vals |-> <<>>]
JStr(t) == [k |-> "string", s |-> t, keys |-> <<>>, vals |-> <<>>]
JObj(ks, vs) == [k |-> "object", s |-> <<>>, keys |-> ks, vals |-> vs]
JArr(vs) == [k |-> "array", s |-> <<>>, keys |-> <<>>, vals |-> vs]

\* typeof x for a JSON value
TypeOfJ(x) == IF x.k \in {"null", "object", "array"} THEN "object" ELSE x.k

\* obj[k] = v: an existing property keeps its place, a new one goes last
Put(ks, vs, k, v) ==
  IF \E i \in 1..Len(ks) : ks[i] = k
  THEN [keys |-> ks,
        vals |-> [i \in 1..Len(vs) |-> IF ks[i] = k THEN v ELSE vs[i]]]
  ELSE [keys |-> Append(ks, k), vals |-> Append(vs, v)]

ParseFail == [ok |-> FALSE, val |-> JUndef, rest |-> <<>>]
ParseOk(v, r) == [ok |-> TRUE, val |-> v, rest |-> r]

\* the length of the run of digits at the head of toks
RECURSIVE DigitRun(_)
DigitRun(toks) ==
  IF toks # <<>> /\ Head(toks) \in Digits THEN 1 + DigitRun(Tail(toks)) ELSE 0

RECURSIVE ParseValue(_), ParseMembers(_, _, _), ParseElements(_, _)
\* one JSON value at the head of toks
ParseValue(toks) ==
  IF toks = <<>> THEN ParseFail
  ELSE LET h == Head(toks)
           r == Tail(toks)
       IN CASE h = "{" ->
                 IF r # <<>> /\ Head(r) = "}" THEN ParseOk(JObj(<<>>, <<>>), Tail(r))
                 ELSE ParseMembers(r, <<>>, <<>>)
            [] h = "[" ->
                 IF r # <<>> /\ Head(r) = "]" THEN ParseOk(JArr(<<>>), Tail(r))
                 ELSE ParseElements(r, <<>>)
            [] h \in StrUnits -> ParseOk(JStr(Unquote(h)), r)
            [] h \in Digits ->
                 LET n == DigitRun(toks)
                 IN ParseOk(JNum(SubSeq(toks, 1, n)), SubSeq(toks, n + 1, Len(toks)))
            [] h = "null" -> ParseOk(JNull, r)
            [] h \in {"true", "false"} -> ParseOk(JBool(h), r)
            [] OTHER -> ParseFail

\* "key": value pairs up to the closing brace; a repeated key keeps its
\* first place and takes the last value
ParseMembers(toks, ks, vs) ==
  IF Len(toks) < 2 \/ Head(toks) \notin StrUnits \/ toks[2] # ":" THEN ParseFail
  ELSE LET pv == ParseValue(SubSeq(toks, 3, Len(toks)))
       IN IF ~pv.ok \/ pv.rest = <<>> THEN ParseFail
          ELSE LET put == Put(ks, vs, Head(toks), pv.val)
               IN IF Head(pv.rest) = "}"
                  THEN ParseOk(JObj(put.keys, put.vals), Tail(pv.rest))
                  ELSE IF Head(pv.rest) = ","
                  THEN ParseMembers(Tail(pv.rest), put.keys, put.vals)
                  ELSE ParseFail

\* values up to the closing bracket
ParseElements(toks, vs) ==
  LET pv == ParseValue(toks)
  IN IF ~pv.ok \/ pv.rest = <<>> THEN ParseFail
     ELSE IF Head(pv.rest) = "]"
     THEN ParseOk(JArr(Append(vs, pv.val)), Tail(pv.rest))
     ELSE IF Head(pv.rest) = ","
     THEN ParseElements(Tail(pv.rest), Append(vs, pv.val))
     ELSE ParseFail

\* JSON.parse(text): one value and nothing after it, or a SyntaxError
JSONparse(text) ==
  LET r == ParseValue(text)
  IN IF r.ok /\ r.rest = <<>> THEN r ELSE ParseFail

RECURSIVE JSONstringify(_), StringifyMembers(_, _, _), StringifyElements(_, _)
\* JSON.stringify(x) for a value other than undefined
JSONstringify(x) ==
  CASE x.k = "string" -> <<Quote(x.s)>>
    [] x.k = "array" -> <<"[">> \o StringifyElements(x.vals, TRUE) \o <<"]">>
    [] x.k = "object" ->
         <<"{">> \o StringifyMembers(x.keys, x.vals, TRUE) \o <<"}">>
    [] OTHER -> x.s

\* the members of an object; a property whose value is undefined is left out
StringifyMembers(ks, vs, first) ==
  IF ks = <<>> THEN <<>>
  ELSE IF Head(vs).k = "undefined" THEN StringifyMembers(Tail(ks), Tail(vs), first)
  ELSE (IF first THEN <<>> ELSE <<",">>)
       \o <<Head(ks), ":">> \o JSONstringify(Head(vs))
       \o StringifyMembers(Tail(ks), Tail(vs), FALSE)

\* the elements of an array; undefined is written null
StringifyElements(vs, first) ==
  IF vs = <<>> THEN <<>>
  ELSE (IF first THEN <<>> ELSE <<",">>)
       \o (IF Head(vs).k = "undefined" THEN <<"null">> ELSE JSONstringify(Head(vs)))
       \o StringifyElements(Tail(vs), FALSE)

(***************************************************************************)
(* expressWXServer: the wrapped res.write and res.end                      *)
(***************************************************************************)
MaxCalls == 2

\* the chunks a handler passes to write and end
Chunks ==
  {<<"{", "\"a\"", ":", "1", "}">>, <<"{", "\"wxContext\"", ":", "1", "}">>,
   <<"[", "1", "]">>, <<"{">>, <<"}">>, <<"1">>, <<"null">>, <<"true">>,
   <<"\"a\"">>, <<"hey">>}

StatusCodes == {200, 404, 500}

NoContext == [given |-> FALSE, OPENID |-> JUndef, APPID |-> JUndef, UNIONID |-> JUndef]

\* options.wxContext: absent, with an open id only, or with all three ids
WXContexts ==
  {NoContext,
   [given |-> TRUE, OPENID |-> JStr(<<"OID">>), APPID |-> JUndef, UNIONID |-> JUndef],
   [given |-> TRUE, OPENID |-> JStr(<<"OID">>), APPID |-> JStr(<<"AID">>),
    UNIONID |-> JStr(<<"UID">>)]}

\* { openid: wxContext?.OPENID, appid: wxContext?.APPID, unionid: wxContext?.UNIONID }
wxContextField(ctx) ==
  JObj(<<"\"openid\"", "\"appid\"", "\"unionid\"">>,
       <<IF ctx.given THEN ctx.OPENID ELSE JUndef,
         IF ctx.given THEN ctx.APPID ELSE JUndef,
         IF ctx.given THEN ctx.UNIONID ELSE JUndef>>)

\* the own enumerable properties of x that { ...x } copies
OwnEntries(x) ==
  IF x.k = "array"
  THEN [keys |-> [i \in 1..Len(x.vals) |-> IndexKey(i - 1)], vals |-> x.vals]
  ELSE [keys |-> x.keys, vals |-> x.vals]

\* a slip that would drop the raw text when it is not JSON
tryParse_DropRaw(text) ==
  LET p == JSONparse(text) IN IF p.ok THEN p.val ELSE JStr(<<>>)

\* try { responseBody = JSON.parse(resBody) } catch (e) { responseBody = resBody }
tryParse(text) ==
  LET p == JSONparse(text) IN IF p.ok THEN p.val ELSE JStr(text)

\* if (typeof responseBody === 'object' && responseBody !== null)
\*   responseBody = { ...responseBody, wxContext: {...} }
includeWxContext(responseBody, ctx) ==
  IF TypeOfJ(responseBody) = "object" /\ responseBody.k # "null"
  THEN LET own == OwnEntries(responseBody)
           put == Put(own.keys, own.vals, "\"wxContext\"", wxContextField(ctx))
       IN JObj(put.keys, put.vals)
  ELSE responseBody

\* body: typeof responseBody === 'object' ? JSON.stringify(responseBody) : responseBody
bodyOf(responseBody) ==
  IF TypeOfJ(responseBody) = "object" THEN Str(JSONstringify(responseBody))
  ELSE IF responseBody.k = "string" THEN Str(responseBody.s)
  ELSE IF responseBody.k = "number" THEN Num(responseBody.s)
  ELSE [t |-> "boolean", v |-> responseBody.s]

\* a slip that would resolve with the status the response was created with
EndOutcome_StatusAtCreation(text, status, ctx) ==
  [statusCode |-> 200, body |-> bodyOf(includeWxContext(tryParse(text), ctx))]

\* the value the wrapped end passes to resolve
EndOutcome(text, status, ctx) ==
  [statusCode |-> status, body |-> bodyOf(includeWxContext(tryParse(text), ctx))]

NoOutcome == [statusCode |-> 0, body |-> Undefined]

\* a slip that would let a later end() replace the resolved value
resolve_LastWins(x) == promise' = "resolved" /\ outcome' = x

\* resolve(x) of the promise: the first call settles it, later calls do nothing
resolve(x) ==
  IF promise = "pending" THEN promise' = "resolved" /\ outcome' = x
  ELSE UNCHANGED <<promise, outcome>>

BridgeIdle ==
  /\ pcInv = "idle" /\ configureFn = "none" /\ eventGiven = TRUE
  /\ wxContext = NoContext /\ promise = "pending" /\ outcome = NoOutcome
  /\ resBody = <<>> /\ statusCode = 200 /\ endCalls = 0 /\ calls = 0

InitBridge ==
  /\ pcInv = "start"
  /\ configureFn \in {"none", "ok", "throws", "rejects"}
  /\ eventGiven \in BOOLEAN
  /\ wxContext \in WXContexts
  /\ promise = "pending" /\ outcome = NoOutcome
  /\ resBody = <<>> /\ statusCode = 200 /\ endCalls = 0 /\ calls = 0

\* const app = await initExpressApp(options): configureFn is awaited first
InitExpressApp ==
  /\ pcInv = "start"
  /\ IF configureFn \in {"throws", "rejects"}
     THEN pcInv' = "failed" /\ promise' = "rejected"
     ELSE pcInv' = "configured" /\ UNCHANGED promise
  /\ UNCHANGED <<configureFn, eventGiven, wxContext, outcome, resBody,
                 statusCode, endCalls, calls,
                 paramVars, sessionVars, extVars>>

\* const params = await getExpressParams(options.event), then the request and
\* response are built and app(req, res) is called
Dispatch ==
  /\ pcInv = "configured"
  /\ IF ~eventGiven
     THEN pcInv' = "failed" /\ promise' = "rejected"
     ELSE pcInv' = "dispatch" /\ UNCHANGED promise
  /\ UNCHANGED <<configureFn, eventGiven, wxContext, outcome, resBody,
                 statusCode, endCalls, calls,
                 paramVars, sessionVars, extVars>>

\* a handler sets res.statusCode
SetStatus(code) ==
  /\ pcInv = "dispatch"
  /\ statusCode # code
  /\ statusCode' = code
  /\ UNCHANGED <<pcInv, configureFn, eventGiven, wxContext, promise, outcome,
                 resBody, endCalls, calls,
                 paramVars, sessionVars, extVars>>

\* res.write(chunk, ...)
Write(chunk) ==
  /\ pcInv = "dispatch"
  /\ calls < MaxCalls
  /\ resBody' = resBody \o chunk
  /\ calls' = calls + 1
  /\ UNCHANGED <<pcInv, configureFn, eventGiven, wxContext, promise, outcome,
                 statusCode, endCalls,
                 paramVars, sessionVars, extVars>>

\* res.end(chunk, ...); data = <<>> stands for end() and for end("")
End(data) ==
  /\ pcInv = "dispatch"
  /\ calls < MaxCalls
  /\ resBody' = IF data # <<>> THEN resBody \o data ELSE resBody
  /\ resolve(EndOutcome(resBody', statusCode, wxContext))
  /\ endCalls' = endCalls + 1
  /\ calls' = calls + 1
  /\ UNCHANGED <<pcInv, configureFn, eventGiven, wxContext, statusCode,
                 paramVars, sessionVars, extVars>>

(***************************************************************************)
(* The session middleware: Cookie, MemoryStore, Session.                   *)
(* Objects live in heaps and are named by reference (1..Max), as the store *)
(* and the request hold the same Session object, not copies of it.         *)
(* A handler that calls Date.now() more than once may see the clock        *)
(* advance between the calls: the first call returns now, the later ones   *)
(* now + d for a d in 0..MaxSkew.                                          *)
(***************************************************************************)
\* the clock stops at MaxTime
MaxTime == 2
\* the most the clock advances inside one handler
MaxSkew == 1
\* the number of sessions ever generated (each with its id and its cookie)
MaxSessions == 1
Ids == 1..MaxSessions
SessRefs == 1..MaxSessions
CookieRefs == 1..MaxSessions
Skews == 0..MaxSkew

\* the dates an application assigns to cookie.expires: an early one, which
\* the clock reaches, and one the clock never reaches
Dates == {1, MaxTime + 1}

\* the cookie options of session(options): none, a maxAge, an expires date,
\* or both
CookieOptionSets ==
  {[hasMaxAge |-> FALSE, maxAge |-> 0, hasExpires |-> FALSE, expires |-> 0],
   [hasMaxAge |-> TRUE, maxAge |-> 2, hasExpires |-> FALSE, expires |-> 0],
   [hasMaxAge |-> FALSE, maxAge |-> 0, hasExpires |-> TRUE, expires |-> 2],
   [hasMaxAge |-> TRUE, maxAge |-> 2, hasExpires |-> TRUE, expires |-> 3]}

\* a Cookie: hasOri/ori are the field _maxAge, hasExpires/expires the field
\* _expires (has... FALSE: undefined)
NoCookie ==
  [alive |-> FALSE, hasOri |-> FALSE, ori |-> 0, hasExpires |-> FALSE, expires |-> 0]
BlankCookie == [NoCookie EXCEPT !.alive = TRUE]

NoSession == [alive |-> FALSE, id |-> 0, cookie |-> 0]

\* get maxAge() read at clock t: expires - Date.now(), or undefined
maxAge(c, t) ==
  IF c.hasExpires THEN [has |-> TRUE, val |-> c.expires - t]
  ELSE [has |-> FALSE, val |-> 0]

\* set expires(date), its Date.now() returning t
setExpires(c, date, t) ==
  LET c1 == [c EXCEPT !.hasExpires = TRUE, !.expires = date]
      live == maxAge(c1, t)
  IN IF live.has /\ live.val # 0
     THEN [c1 EXCEPT !.hasOri = TRUE, !.ori = live.val]
     ELSE c1

\* set maxAge(ms), its Date.now() returning t1 and the one of set expires t2
setMaxAge(c, has, ms, t1, t2) ==
  IF ~has \/ ms = 0 THEN c ELSE setExpires(c, t1 + ms, t2)

\* new Cookie(options)
newCookie(options, t1, t2) ==
  LET c1 == IF options.hasMaxAge /\ options.maxAge # 0
            THEN [setMaxAge(BlankCookie, TRUE, options.maxAge, t1, t2)
                    EXCEPT !.hasOri = TRUE, !.ori = options.maxAge]
            ELSE BlankCookie
  IN IF options.hasExpires THEN setExpires(c1, options.expires, t2) ELSE c1

\* getOriMaxAge()
getOriMaxAge(c) == [has |-> c.hasOri, val |-> c.ori]

\* a slip that would keep a session alive at the very instant it expires
isExpired_Strict(ref, t) ==
  /\ sessObj[ref].cookie # 0
  /\ cookieObj[sessObj[ref].cookie].hasExpires
  /\ cookieObj[sessObj[ref].cookie].expires < t

\* getSession's test: the session has a cookie whose expires is <= Date.now()
isExpired(ref, t) ==
  /\ sessObj[ref].cookie # 0
  /\ cookieObj[sessObj[ref].cookie].hasExpires
  /\ cookieObj[sessObj[ref].cookie].expires <= t

\* getSession.call(store, id): the session it returns (0: undefined) and the
\* store it leaves
getSession(id, t) ==
  IF sessions[id] = 0 THEN [session |-> 0, sessions |-> sessions]
  ELSE IF isExpired(sessions[id], t)
  THEN [session |-> 0, sessions |-> [sessions EXCEPT ![id] = 0]]
  ELSE [session |-> sessions[id], sessions |-> sessions]

SessionIdle ==
  /\ now = 0
  /\ cookieOptions = [hasMaxAge |-> FALSE, maxAge |-> 0, hasExpires |-> FALSE,
                      expires |-> 0]
  /\ sessions = [id \in Ids |-> 0]
  /\ sessObj = [r \in SessRefs |-> NoSession]
  /\ cookieObj = [r \in CookieRefs |-> NoCookie]
  /\ requested = [r \in CookieRefs |-> [maxAge |-> 0]]
  /\ req = [sessionId |-> 0, session |-> 0]
  /\ scheduled = [id |-> 0, session |-> 0]
  /\ lastOp = [name |-> "none", found |-> 0]

InitSession ==
  /\ now = 0
  /\ cookieOptions \in CookieOptionSets
  /\ sessions = [id \in Ids |-> 0]
  /\ sessObj = [r \in SessRefs |-> NoSession]
  /\ cookieObj = [r \in CookieRefs |-> NoCookie]
  /\ requested = [r \in CookieRefs |-> [maxAge |-> 0]]
  /\ req = [sessionId |-> 0, session |-> 0]
  /\ scheduled = [id |-> 0, session |-> 0]
  /\ lastOp = [name |-> "none", found |-> 0]

\* one millisecond passes
Tick ==
  /\ now < MaxTime
  /\ lastOp' = [name |-> "tick", found |-> 0]
  /\ now' = now + 1
  /\ UNCHANGED <<cookieOptions, sessions, sessObj, cookieObj, requested, req,
                 scheduled, paramVars, bridgeVars, extVars>>

\* store.generate(req): a fresh id, a new Session and a new Cookie from the
\* configured options
Generate(d) ==
  /\ now + d <= MaxTime
  /\ lastOp' = [name |-> "generate", found |-> 0]
  /\ \E id \in Ids, s \in SessRefs, c \in CookieRefs :
       /\ id = req.sessionId + 1
       /\ ~sessObj[s].alive /\ \A r \in SessRefs : r < s => sessObj[r].alive
       /\ ~cookieObj[c].alive /\ \A r \in CookieRefs : r < c => cookieObj[r].alive
       /\ req' = [sessionId |-> id, session |-> s]
       /\ sessObj' = [sessObj EXCEPT ![s] = [alive |-> TRUE, id |-> id, cookie |-> c]]
       /\ cookieObj' = [cookieObj EXCEPT ![c] = newCookie(cookieOptions, now, now + d)]
       /\ requested' = [requested EXCEPT
                          ![c] = [maxAge |-> IF cookieOptions.hasMaxAge
                                             THEN cookieOptions.maxAge ELSE 0]]
  /\ now' = now + d
  /\ UNCHANGED <<cookieOptions, sessions, scheduled, paramVars,
                 bridgeVars, extVars>>

\* req.session.save(): store.commit(this.id, this)
Save ==
  /\ req.session # 0
  /\ lastOp' = [name |-> "save", found |-> 0]
  /\ sessions' = [sessions EXCEPT ![sessObj[req.session].id] = req.session]
  /\ UNCHANGED <<now, cookieOptions, sessObj, cookieObj, requested, req,
                 scheduled, paramVars, bridgeVars, extVars>>

\* store.get(id, callback): getSession runs inside the call, and the
\* callback is handed to setImmediate with (null, the session found)
Get(id) ==
  /\ LET r == getSession(id, now)
     IN /\ sessions' = r.sessions
        /\ scheduled' = [id |-> id, session |-> r.session]
  /\ lastOp' = [name |-> "get", found |-> sessions[id]]
  /\ UNCHANGED <<now, cookieOptions, sessObj, cookieObj, requested, req,
                 paramVars, bridgeVars, extVars>>

\* req.session.touch(): this.cookie.maxAge = this.cookie.getOriMaxAge()
SessionTouch(d) ==
  /\ req.session # 0
  /\ now + d <= MaxTime
  /\ lastOp' = [name |-> "touch", found |-> 0]
  /\ LET c == sessObj[req.session].cookie
         ori == getOriMaxAge(cookieObj[c])
     IN /\ c # 0
        /\ cookieObj' = [cookieObj EXCEPT
                           ![c] = setMaxAge(@, ori.has, ori.val, now, now + d)]
  /\ now' = now + d
  /\ UNCHANGED <<cookieOptions, sessions, sessObj, requested, req, scheduled,
                 paramVars, bridgeVars, extVars>>

\* req.session.cookie.expires = date
SetExpires(date) ==
  /\ req.session # 0
  /\ lastOp' = [name |-> "setExpires", found |-> 0]
  /\ LET c == sessObj[req.session].cookie
     IN /\ c # 0
        /\ cookieObj' = [cookieObj EXCEPT ![c] = setExpires(@, date, now)]
  /\ UNCHANGED <<now, cookieOptions, sessions, sessObj, requested, req,
                 scheduled, paramVars, bridgeVars, extVars>>

(***************************************************************************)
(* The middleware function returned by session(options)                    *)
(***************************************************************************)
\* the number of emitted signals whose listeners are still to run
MaxSignals == 2
\* the number of requests passed through the middleware
MaxRequests == 3

Signals == {"connect", "disconnect"}

NoRequest == [state |-> "none", hasSession |-> FALSE, nextCalls |-> 0]

\* let storeReady = true, the listeners registered, no request yet
MiddlewareIdle ==
  /\ storeReady = TRUE
  /\ emitted = <<>>
  /\ mwReq = NoRequest
  /\ served = 0

InitMiddleware == MiddlewareIdle

\* store.emit("connect") / store.emit("disconnect"): the listeners run later
Emit(sig) ==
  /\ Len(emitted) < MaxSignals
  /\ emitted' = Append(emitted, sig)
  /\ UNCHANGED <<storeReady, mwReq, served, coreVars, storeVars, secureVars, ctorVars, asmVars, dispatchVars, lateVars>>

\* the listener of the oldest emitted signal runs
RunListener ==
  /\ emitted # <<>>
  /\ storeReady' = (Head(emitted) = "connect")
  /\ emitted' = Tail(emitted)
  /\ UNCHANGED <<mwReq, served, coreVars, storeVars, secureVars, ctorVars, asmVars, dispatchVars, lateVars>>

\* a request reaches the middleware, with or without req.session
Arrive(hasSession) ==
  /\ mwReq.state # "arrived"
  /\ served < MaxRequests
  /\ mwReq' = [state |-> "arrived", hasSession |-> hasSession, nextCalls |-> 0]
  /\ UNCHANGED <<storeReady, emitted, served, coreVars, storeVars, secureVars, ctorVars, asmVars, dispatchVars, lateVars>>

\* (req, res, next) => { ... }: what the function does to the request
MiddlewareFn(r) ==
  IF r.hasSession
  THEN [r EXCEPT !.state = "returned", !.nextCalls = @ + 1]
  ELSE IF ~storeReady
       THEN [r EXCEPT !.state = "returned", !.nextCalls = @ + 1]
       ELSE [r EXCEPT !.state = "returned"]

\* the middleware function runs on the request and returns
Middleware ==
  /\ mwReq.state = "arrived"
  /\ mwReq' = MiddlewareFn(mwReq)
  /\ served' = served + 1
  /\ UNCHANGED <<storeReady, emitted, coreVars, storeVars, secureVars, ctorVars, asmVars, dispatchVars, lateVars>>

NextMiddleware ==
  \/ \E sig \in Signals : Emit(sig)
  \/ RunListener
  \/ \E hasSession \in BOOLEAN : Arrive(hasSession)
  \/ Middleware

(***************************************************************************)
(* Two middlewares made by session(), their MemoryStores and requests      *)
(***************************************************************************)
\* the number of Session objects ever constructed
MaxObjs == 2
\* the last clock value
MaxClock == 1
\* the number of callbacks waiting for their tick
MaxTicks == 1

\* the two session() calls, and the requests of their applications
Middlewares == {1, 2}
Refs == 1..MaxObjs
\* session ids: uuidv4() is modelled as a counter, every id is new
SessionIds == 1..MaxObjs
\* cookie options: no maxAge, or maxAge 1
CookieMaxAges == {0, 1}

NoObj == [alive |-> FALSE, id |-> 0, req |-> 0, expires |-> 0]
NoEntries == [id \in SessionIds |-> 0]

\* a slip that would hand every middleware one module-level store
storeOf_Shared(m) == 1

\* const store = _options.store || new MemoryStore(), no store option given
storeOf(m) == m

\* getSession's test on the entry of id in a sessions map, at clock t
entryExpired(map, heap, id, t) ==
  /\ map[id] # 0
  /\ heap[map[id]].expires # 0
  /\ heap[map[id]].expires <= t

\* getSession.call(store, id): the session returned (0: undefined)
sessionFound(map, heap, id, t) ==
  IF map[id] = 0 \/ entryExpired(map, heap, id, t) THEN 0 ELSE map[id]

\* the sessions map after getSession.call(store, id)
afterGetSession(map, heap, id, t) ==
  IF entryExpired(map, heap, id, t) THEN [map EXCEPT ![id] = 0] ELSE map

\* the first reference not yet used by a Session object (0: none left)
freeRef == IF \E r \in Refs : ~objs[r].alive
           THEN CHOOSE r \in Refs : ~objs[r].alive /\ \A q \in Refs : q < r => objs[q].alive
           ELSE 0

\* store.generate(req): a new id, a new Session, a new Cookie(cookieOptions)
generated(m, r, t) ==
  [alive |-> TRUE, id |-> r, req |-> m,
   expires |-> IF mwCookie[m] = 0 THEN 0 ELSE t + mwCookie[m]]

StoresIdle ==
  /\ clock = 0
  /\ mwCookie = [m \in Middlewares |-> 0]
  /\ stores = [m \in Middlewares |-> NoEntries]
  /\ objs = [r \in Refs |-> NoObj]
  /\ reqOf = [m \in Middlewares |-> [sessionId |-> 0, session |-> 0]]
  /\ ticks = <<>>

InitStores ==
  /\ clock = 0
  /\ mwCookie \in [Middlewares -> CookieMaxAges]
  /\ stores = [m \in Middlewares |-> NoEntries]
  /\ objs = [r \in Refs |-> NoObj]
  /\ reqOf = [m \in Middlewares |-> [sessionId |-> 0, session |-> 0]]
  /\ ticks = <<>>

\* time passes
StoreTick ==
  /\ clock < MaxClock
  /\ clock' = clock + 1
  /\ UNCHANGED <<mwCookie, stores, objs, reqOf, ticks, coreVars, mwVars, secureVars, ctorVars, asmVars, dispatchVars, lateVars>>

\* a slip that would store the session generate creates
StoreGenerate_Saves(m) ==
  /\ reqOf[m].sessionId = 0
  /\ freeRef # 0
  /\ objs' = [objs EXCEPT ![freeRef] = generated(m, freeRef, clock)]
  /\ reqOf' = [reqOf EXCEPT ![m] = [sessionId |-> freeRef, session |-> freeRef]]
  /\ stores' = [stores EXCEPT ![storeOf(m)][freeRef] = freeRef]
  /\ UNCHANGED <<clock, mwCookie, ticks, coreVars, mwVars, secureVars, ctorVars, asmVars, dispatchVars, lateVars>>

\* store.generate(req), called for a request of middleware m that has no
\* session id yet
StoreGenerate(m) ==
  /\ reqOf[m].sessionId = 0
  /\ freeRef # 0
  /\ objs' = [objs EXCEPT ![freeRef] = generated(m, freeRef, clock)]
  /\ reqOf' = [reqOf EXCEPT ![m] = [sessionId |-> freeRef, session |-> freeRef]]
  /\ UNCHANGED <<clock, mwCookie, stores, ticks, coreVars, mwVars, secureVars, ctorVars, asmVars, dispatchVars, lateVars>>

\* store.commit(session.id, session), as session.save() calls it
Commit(m, r) ==
  /\ objs[r].alive /\ objs[r].req = m
  /\ stores' = [stores EXCEPT ![storeOf(m)][objs[r].id] = r]
  /\ UNCHANGED <<clock, mwCookie, objs, reqOf, ticks, coreVars, mwVars, secureVars, ctorVars, asmVars, dispatchVars, lateVars>>

\* store.touch(id, session): the live entry of id takes session's cookie
Touch(m, id, r) ==
  /\ objs[r].alive /\ objs[r].req = m
  /\ LET map == stores[storeOf(m)]
         currSession == sessionFound(map, objs, id, clock)
     IN /\ stores' = [stores EXCEPT ![storeOf(m)] = afterGetSession(map, objs, id, clock)]
        /\ objs' = IF currSession # 0
                   THEN [objs EXCEPT ![currSession].expires = objs[r].expires]
                   ELSE objs
  /\ UNCHANGED <<clock, mwCookie, reqOf, ticks, coreVars, mwVars, secureVars, ctorVars, asmVars, dispatchVars, lateVars>>

\* store.destroy(id)
Destroy(m, id) ==
  /\ stores' = [stores EXCEPT ![storeOf(m)][id] = 0]
  /\ UNCHANGED <<clock, mwCookie, objs, reqOf, ticks, coreVars, mwVars, secureVars, ctorVars, asmVars, dispatchVars, lateVars>>

\* store.clear()
Clear(m) ==
  /\ stores' = [stores EXCEPT ![storeOf(m)] = NoEntries]
  /\ UNCHANGED <<clock, mwCookie, objs, reqOf, ticks, coreVars, mwVars, secureVars, ctorVars, asmVars, dispatchVars, lateVars>>

\* a slip that would schedule generate without destroying the old entry
Regenerate_KeepEntry(m) ==
  /\ Len(ticks) < MaxTicks
  /\ ticks' = Append(ticks, m)
  /\ UNCHANGED <<clock, mwCookie, stores, objs, reqOf, coreVars, mwVars, secureVars, ctorVars, asmVars, dispatchVars, lateVars>>

\* store.regenerate(req): destroy(req.sessionId, callback); the callback,
\* which calls generate(req), is handed to process.nextTick
Regenerate(m) ==
  /\ Len(ticks) < MaxTicks
  /\ stores' = IF reqOf[m].sessionId = 0 THEN stores
               ELSE [stores EXCEPT ![storeOf(m)][reqOf[m].sessionId] = 0]
  /\ ticks' = Append(ticks, m)
  /\ UNCHANGED <<clock, mwCookie, objs, reqOf, coreVars, mwVars, secureVars, ctorVars, asmVars, dispatchVars, lateVars>>

\* the oldest nextTick callback runs: self.generate && self.generate(req)
RunNextTick ==
  /\ ticks # <<>>
  /\ freeRef # 0
  /\ LET m == Head(ticks)
     IN /\ objs' = [objs EXCEPT ![freeRef] = generated(m, freeRef, clock)]
        /\ reqOf' = [reqOf EXCEPT ![m] = [sessionId |-> freeRef, session |-> freeRef]]
  /\ ticks' = Tail(ticks)
  /\ UNCHANGED <<clock, mwCookie, stores, coreVars, mwVars, secureVars, ctorVars, asmVars, dispatchVars, lateVars>>

\* store.get(id, callback)
StoreGet(m, id) ==
  /\ stores' = [stores EXCEPT ![storeOf(m)] =
                  afterGetSession(stores[storeOf(m)], objs, id, clock)]
  /\ UNCHANGED <<clock, mwCookie, objs, reqOf, ticks, coreVars, mwVars, secureVars, ctorVars, asmVars, dispatchVars, lateVars>>

\* store.getAll(callback): getSession on every key
GetAll(m) ==
  /\ stores' = [stores EXCEPT ![storeOf(m)] =
                  [id \in SessionIds |->
                     sessionFound(stores[storeOf(m)], objs, id, clock)]]
  /\ UNCHANGED <<clock, mwCookie, objs, reqOf, ticks, coreVars, mwVars, secureVars, ctorVars, asmVars, dispatchVars, lateVars>>

\* a slip that would remove the entry and leave the session on the request
SessionDestroy_KeepOnRequest(r) ==
  /\ objs[r].alive
  /\ stores' = [stores EXCEPT ![storeOf(objs[r].req)][objs[r].id] = 0]
  /\ UNCHANGED <<clock, mwCookie, objs, reqOf, ticks, coreVars, mwVars, secureVars, ctorVars, asmVars, dispatchVars, lateVars>>

\* session.destroy(): delete this.req.session, then store.destroy(this.id)
SessionDestroy(r) ==
  /\ objs[r].alive
  /\ LET m == objs[r].req
     IN /\ reqOf' = [reqOf EXCEPT ![m].session = 0]
        /\ stores' = [stores EXCEPT ![storeOf(m)][objs[r].id] = 0]
  /\ UNCHANGED <<clock, mwCookie, objs, ticks, coreVars, mwVars, secureVars, ctorVars, asmVars, dispatchVars, lateVars>>

NextStores ==
  \/ StoreTick
  \/ \E m \in Middlewares : StoreGenerate(m)
  \/ \E m \in Middlewares, r \in Refs : Commit(m, r)
  \/ \E m \in Middlewares, id \in SessionIds, r \in Refs : Touch(m, id, r)
  \/ \E m \in Middlewares, id \in SessionIds : Destroy(m, id)
  \/ \E m \in Middlewares : Clear(m)
  \/ \E m \in Middlewares : Regenerate(m)
  \/ RunNextTick
  \/ \E m \in Middlewares, id \in SessionIds : StoreGet(m, id)
  \/ \E m \in Middlewares : GetAll(m)
  \/ \E r \in Refs : SessionDestroy(r)

(***************************************************************************)
(* isSecure(req, trustProxy)                                               *)
(***************************************************************************)
\* header values, written in units: a protocol name, a blank, a comma
ProtoUnits == {"https", "HTTPS", "Https", "http", " ", ","}

LowerUnit(u) == IF u \in {"https", "HTTPS", "Https"} THEN "https" ELSE u

\* String.prototype.toLowerCase
toLowerCase(str) == [i \in 1..Len(str) |-> LowerUnit(str[i])]

\* String.prototype.indexOf(","), counted from 1 (0: not found)
indexOfComma(str) ==
  IF \E i \in 1..Len(str) : str[i] = ","
  THEN CHOOSE i \in 1..Len(str) : str[i] = "," /\ \A j \in 1..(i - 1) : str[j] # ","
  ELSE 0

\* String.prototype.trim
RECURSIVE trim(_)
trim(str) ==
  IF str = <<>> THEN <<>>
  ELSE IF Head(str) = " " THEN trim(Tail(str))
  ELSE IF str[Len(str)] = " " THEN trim(SubSeq(str, 1, Len(str) - 1))
  ELSE str

\* the header names a request may carry: the forwarded-protocol header, and
\* the name the lookup in isSecure is written with
ForwardedProto == "x-forwarded-proto"
LookedUpHeader == "x-forworded-proto"
HeaderNames == {ForwardedProto, LookedUpHeader}

\* the values of one header (<<"absent">>: the request has no such header)
Absent == <<"absent">>
HeaderValues ==
  { Absent, <<>>, <<"https">>, <<"HTTPS">>, <<"http">>,
    <<" ", "Https", " ">>, <<"https", ",", "http">>, <<"http", ",", "https">>,
    <<" ", "HTTPS", " ", ",", " ", "http">> }

\* req.secure: undefined, true or false;  trustProxy likewise
MaybeBooleans == {"undefined", "true", "false"}

SecureRequests == [secure : MaybeBooleans, header : [HeaderNames -> HeaderValues]]

\* req.header?.[name] || ""
headerOr(r, name) == IF r.header[name] = Absent THEN <<>> ELSE r.header[name]

\* isSecure(req, trustProxy)
isSecure(r, trust) ==
  IF trust = "false" THEN FALSE
  ELSE IF trust # "true" THEN r.secure = "true"
  ELSE LET header == headerOr(r, LookedUpHeader)
           index == indexOfComma(header)
           proto == IF index # 0
                    THEN trim(toLowerCase(SubSeq(header, 1, index - 1)))
                    ELSE trim(toLowerCase(header))
       IN proto = <<"https">>

SecureIdle ==
  /\ secReq = [secure |-> "undefined", header |-> [n \in HeaderNames |-> Absent]]
  /\ trustProxy = "undefined"
  /\ secureResult = "none"

InitSecure ==
  /\ secReq \in SecureRequests
  /\ trustProxy \in MaybeBooleans
  /\ secureResult = "none"

\* the call isSecure(req, trustProxy) returns
CallIsSecure ==
  /\ secureResult = "none"
  /\ secureResult' = IF isSecure(secReq, trustProxy) THEN "true" ELSE "false"
  /\ UNCHANGED <<secReq, trustProxy, coreVars, mwVars, storeVars, ctorVars, asmVars, dispatchVars, lateVars>>

NextSecure == CallIsSecure

(***************************************************************************)
(* new Session(req, session)                                               *)
(***************************************************************************)
\* the keys looked at: the declared fields, one data field, and the name of
\* a method of the prototype
Fields == {"id", "req", "cookie", "data", "touch"}
\* the order in which Object.entries lists them
FieldOrder == <<"id", "req", "cookie", "data", "touch">>

\* what a stored field may hold ("absent": the stored data has no such key)
StoredValues == {"absent", "null", "undefined", "0", "stored"}
\* req.sessionId: the empty string or an id
RequestIds == {"", "req-id"}

\* a value that is neither undefined, null, 0 nor ""
truthy(v) == v \notin {"absent", "null", "undefined", "0", ""}

\* the instance when the loop starts: this.id = req.sessionId, this.req = req;
\* cookie is declared and not set; touch is found on the prototype
freshInstance(sessionId) ==
  [k \in Fields |->
     CASE k = "id" -> sessionId
       [] k = "req" -> "the-request"
       [] k = "touch" -> "method"
       [] OTHER -> "absent"]

\* k in this
inThis(inst, k) == inst[k] # "absent"

\* Object.entries(session): the keys the stored data has, in order
entriesOf(stored) == SelectSeq(FieldOrder, LAMBDA k : stored[k] # "absent")

\* a slip that would copy only over fields that are present and falsy
copyField_PresentAndFalsy(inst, k, v) ==
  IF v # "null" /\ (~inThis(inst, k) /\ ~truthy(inst[k]))
  THEN [inst EXCEPT ![k] = v]
  ELSE inst

\* if (v !== null && (!(k in this) || !this[k])) this[k] = v
copyField(inst, k, v) ==
  IF v # "null" /\ (~inThis(inst, k) \/ ~truthy(inst[k]))
  THEN [inst EXCEPT ![k] = v]
  ELSE inst

\* for (const [k, v] of Object.entries(session)) ...
RECURSIVE copyEntries(_, _, _)
copyEntries(inst, stored, keys) ==
  IF keys = <<>> THEN inst
  ELSE copyEntries(copyField(inst, Head(keys), stored[Head(keys)]), stored,
                   Tail(keys))

\* the constructor of Session
newSession(sessionId, stored) ==
  copyEntries(freshInstance(sessionId), stored, entriesOf(stored))

Unbuilt == [k \in Fields |-> "unbuilt"]

CtorIdle ==
  /\ ctorSessionId = ""
  /\ ctorStored = [k \in Fields |-> "absent"]
  /\ ctorInstance = Unbuilt

InitCtor ==
  /\ ctorSessionId \in RequestIds
  /\ ctorStored \in [Fields -> StoredValues]
  /\ ctorInstance = Unbuilt

\* new Session(req, session) returns
Construct ==
  /\ ctorInstance = Unbuilt
  /\ ctorInstance' = newSession(ctorSessionId, ctorStored)
  /\ UNCHANGED <<ctorSessionId, ctorStored, coreVars, mwVars, storeVars,
                 secureVars, asmVars, dispatchVars, lateVars>>

NextCtor == Construct

(***************************************************************************)
(* initExpressApp(configs)                                                 *)
(***************************************************************************)
\* the number of calls of initExpressApp on one application
MaxAssemblies == 2

Settings == {"x", "y"}
\* a setting is unset, false (disabled), true (enabled) or a value
NoSettings == [k \in Settings |-> "unset"]

DisableLists == {<<>>, <<"x">>, <<"x", "y">>}
EnableLists == {<<>>, <<"x">>}
SetterLists ==
  { <<>>, <<[setting |-> "x", val |-> "v1"]>>,
    <<[setting |-> "x", val |-> "v1"], [setting |-> "x", val |-> "v2"]>>,
    <<[setting |-> "y", val |-> "v1"]>> }
ParamLists == {<<>>, <<"id">>}
OnLists == {<<>>, <<"foo">>}
HandlerLists == {<<>>, <<"h">>}
HookKinds == {"none", "ok", "throws", "rejects"}

AsmConfigs ==
  [app : BOOLEAN, disableSettings : DisableLists,
   enableSettings : EnableLists, setters : SetterLists, params : ParamLists,
   ons : OnLists, handlers : HandlerLists, configureFn : HookKinds]

\* an application supplied by the caller, with nothing attached yet
BareApp == [settings |-> NoSettings, params |-> <<>>, listeners |-> <<>>,
            stack |-> <<>>]
\* express().use(json())
NewApp == [BareApp EXCEPT !.stack = <<"json">>]

\* the forEach statements after the await, in a different order: a slip
StepOrder_EnableFirst == <<"enable", "disable", "set", "param", "on", "use">>

\* the forEach statements after the await, in the order of the code
StepOrder == <<"disable", "enable", "set", "param", "on", "use">>

RECURSIVE setAll(_, _, _)
\* list.forEach(name => app.set(name, val))
setAll(settings, names, val) ==
  IF names = <<>> THEN settings
  ELSE setAll([settings EXCEPT ![Head(names)] = val], Tail(names), val)

RECURSIVE applySetters(_, _)
\* setters.forEach(setter => app.set(setter.setting, setter.val))
applySetters(settings, setters) ==
  IF setters = <<>> THEN settings
  ELSE applySetters([settings EXCEPT ![Head(setters).setting] = Head(setters).val],
                    Tail(setters))

\* one forEach statement applied to the application
applyStep(app, cfg, step) ==
  CASE step = "disable" ->
         [app EXCEPT !.settings = setAll(@, cfg.disableSettings, "false")]
    [] step = "enable" ->
         [app EXCEPT !.settings = setAll(@, cfg.enableSettings, "true")]
    [] step = "set" -> [app EXCEPT !.settings = applySetters(@, cfg.setters)]
    [] step = "param" -> [app EXCEPT !.params = @ \o cfg.params]
    [] step = "on" -> [app EXCEPT !.listeners = @ \o cfg.ons]
    [] step = "use" -> [app EXCEPT !.stack = @ \o cfg.handlers]

NoSnapshot == [taken |-> FALSE, app |-> BareApp]

AsmIdle ==
  /\ asmConfig = [app |-> FALSE, disableSettings |-> <<>>,
                  enableSettings |-> <<>>, setters |-> <<>>, params |-> <<>>,
                  ons |-> <<>>, handlers |-> <<>>, configureFn |-> "none"]
  /\ asmPc = "idle"
  /\ asmApp = BareApp
  /\ asmCalls = 0
  /\ asmFirst = NoSnapshot

InitAsm ==
  /\ asmConfig \in AsmConfigs
  /\ asmPc = "idle"
  /\ asmApp = BareApp
  /\ asmCalls = 0
  /\ asmFirst = NoSnapshot

\* initExpressApp(configs) is called: _app = app ?? express().use(json()),
\* then configureFn?.() is awaited.  A later call is given the application
\* the call before returned.
CallInit ==
  /\ asmPc \in {"idle", "done"}
  /\ asmCalls < MaxAssemblies
  /\ asmApp' = IF asmCalls = 0 /\ ~asmConfig.app THEN NewApp ELSE asmApp
  /\ asmPc' = "hook"
  /\ UNCHANGED <<asmConfig, asmCalls, asmFirst, coreVars, mwVars, storeVars,
                 secureVars, ctorVars, dispatchVars, lateVars>>

\* the awaited hook settles: the function goes on, or its promise rejects
HookSettles ==
  /\ asmPc = "hook"
  /\ asmPc' = IF asmConfig.configureFn \in {"throws", "rejects"}
              THEN "failed" ELSE StepOrder[1]
  /\ UNCHANGED <<asmConfig, asmApp, asmCalls, asmFirst, coreVars, mwVars,
                 storeVars, secureVars, ctorVars, dispatchVars, lateVars>>

\* the next forEach statement runs; after the last one the call returns _app
ApplyStep ==
  /\ \E i \in 1..Len(StepOrder) :
       /\ asmPc = StepOrder[i]
       /\ asmApp' = applyStep(asmApp, asmConfig, asmPc)
       /\ IF i < Len(StepOrder)
          THEN /\ asmPc' = StepOrder[i + 1]
               /\ UNCHANGED <<asmCalls, asmFirst>>
          ELSE /\ asmPc' = "done"
               /\ asmCalls' = asmCalls + 1
               /\ asmFirst' = IF asmCalls = 0
                              THEN [taken |-> TRUE, app |-> asmApp']
                              ELSE asmFirst
  /\ UNCHANGED <<asmConfig, coreVars, mwVars, storeVars, secureVars, ctorVars, dispatchVars, lateVars>>

NextAsm ==
  \/ CallInit
  \/ HookSettles
  \/ ApplyStep

(***************************************************************************)
(* Dispatch: expressWXServer({app, event}) hands the request to            *)
(* app(req, res) and resolves with what the application ends the response  *)
(* with.  The applications come from initExpressApp() (a new application   *)
(* with the JSON body parser) or from the caller (express(), no parser).   *)
(* An application may extend its request prototype (or its response        *)
(* prototype: the framework installs and links the two in the same way)    *)
(* with one method (foobar), register one route (GET "/") whose handler    *)
(* calls that method and sends what it returns, and mount the next         *)
(* application at "/sub".  What the framework does with a request (the     *)
(* body parser, the router, the prototype chain, the final handler) is     *)
(* modelled by what it does for these applications; every event has the    *)
(* default method GET.                                                     *)
(* A path is the sequence of its segments: <<>> is "/".                    *)
(***************************************************************************)
AppIds == {1, 2, 3}
Envs == {"development", "production"}
Paths == {<<>>, <<"sub">>}
NoLength == [given |-> FALSE, n |-> 0]
ContentLengths == {NoLength, [given |-> TRUE, n |-> 2]}
ContentTypes == {"absent", "application/json"}
Bodies == {<<>>, <<"{", "}">>, <<"{", "{">>}
Invocations ==
  [path : Paths, contentLength : ContentLengths, contentType : ContentTypes,
   body : Bodies]

\* express(): nothing extended, registered or mounted yet
NewExpress(withJson) ==
  [json |-> withJson, extends |-> FALSE, route |-> FALSE, sub |-> FALSE,
   deep |-> FALSE]

\* the body parser's verdict on a request: "next", or the error it passes on
jsonParser(ev) ==
  IF ~ev.contentLength.given \/ ev.contentType # "application/json"
  THEN "next"
  ELSE IF Len(ev.body) # ev.contentLength.n THEN "BadRequestSize"
  ELSE IF ev.body = <<>> THEN "next"
  ELSE IF Head(ev.body) \notin {"{", "["} \/ ~JSONparse(ev.body).ok
  THEN "SyntaxError"
  ELSE "next"

\* one prototype for all the applications: an extension of one is found by all
definerOf_SharedPrototype(a) ==
  IF apps[a].extends THEN a
  ELSE IF \E b \in AppIds : apps[b].extends
  THEN CHOOSE b \in AppIds : apps[b].extends
  ELSE 0

\* the application on whose prototype a handler of application a finds the
\* method: a's own, else that of the application a is mounted in (0: none)
RECURSIVE definerOf(_)
definerOf(a) ==
  IF apps[a].extends THEN a
  ELSE IF (a - 1) \in AppIds /\ apps[a - 1].sub THEN definerOf(a - 1)
  ELSE 0

\* what the method declared on application d returns
returned(d) == <<<<"tobi">>, <<"loki">>, <<"thor">>>>[d]

FellThrough == [kind |-> "next", err |-> "none", handler |-> 0, callee |-> 0]
Failed(e, h) == [kind |-> "error", err |-> e, handler |-> h, callee |-> 0]
Sent(h, d) == [kind |-> "sent", err |-> "none", handler |-> h, callee |-> d]

\* a slip that would leave the prototypes of the mounted application on the
\* request and the response after it passed the request on
protoRestored_Kept(orig, sub) == sub

\* the application whose prototypes the request and the response have once
\* the mounted application sub has passed the request back to orig
protoRestored(orig, sub) == orig

\* the application whose prototypes are installed when a route of a runs on
\* path p: a's own, restored if the request went through a's mounted
\* application first
installedAt(a, p) ==
  IF apps[a].sub /\ p # <<>> /\ Head(p) = "sub" THEN protoRestored(a, a + 1)
  ELSE a

\* a route handler of application a, res.send(req.foobar()), run with the
\* prototypes of application i installed
callHandler(a, i) ==
  IF definerOf(i) = 0 THEN Failed("TypeError", a) ELSE Sent(a, definerOf(i))

\* application a handling path p: its body parser, its mounted application,
\* its routes "/" and "/sub/foo"
RECURSIVE handle(_, _, _)
handle(a, p, ev) ==
  IF apps[a].json /\ jsonParser(ev) # "next" THEN Failed(jsonParser(ev), 0)
  ELSE IF /\ apps[a].sub /\ p # <<>> /\ Head(p) = "sub"
          /\ handle(a + 1, Tail(p), ev).kind # "next"
  THEN handle(a + 1, Tail(p), ev)
  ELSE IF apps[a].route /\ p = <<>> THEN callHandler(a, installedAt(a, p))
  ELSE IF apps[a].deep /\ p = <<"sub", "foo">>
  THEN callHandler(a, installedAt(a, p))
  ELSE FellThrough

\* the status of an error nobody handled
errStatus(e) == IF e \in {"BadRequestSize", "SyntaxError"} THEN 400 ELSE 500

\* err.stack begins with the error's name and message
stackOf(e) ==
  CASE e = "TypeError" -> <<"TypeError: ", "foobar", " is not a function">>
    [] e = "SyntaxError" -> <<"SyntaxError: ", "Unexpected token">>
    [] OTHER -> <<"BadRequestError: ", "request size did not match content length">>

statusMessage(code) ==
  IF code = 400 THEN <<"Bad Request">> ELSE <<"Internal Server Error">>

\* the final handler: status and text of the response nobody else ended
finalStatus(r) ==
  IF r.kind = "sent" THEN 200
  ELSE IF r.kind = "error" THEN errStatus(r.err)
  ELSE 404

finalText(r, env) ==
  IF r.kind = "sent" THEN returned(r.callee)
  ELSE IF r.kind = "error"
  THEN IF env # "production" THEN stackOf(r.err)
       ELSE statusMessage(errStatus(r.err))
  ELSE <<"Cannot GET ">>

NoInvocation ==
  [pc |-> "idle", app |-> 0, event |-> [path |-> <<>>,
   contentLength |-> NoLength, contentType |-> "absent", body |-> <<>>],
   handler |-> 0, callee |-> 0, outcome |-> NoOutcome]

DispatchIdle ==
  /\ nodeEnv = "development"
  /\ apps = [a \in AppIds |-> NewExpress(FALSE)]
  /\ inv = NoInvocation

InitDispatch ==
  /\ nodeEnv \in Envs
  /\ apps \in [AppIds -> {NewExpress(j) : j \in BOOLEAN}]
  /\ inv = NoInvocation

\* app.request.foobar = function ... (or app.response.foobar)
ExtendProto(a) ==
  /\ inv.pc = "idle" /\ ~apps[a].extends
  /\ apps' = [apps EXCEPT ![a].extends = TRUE]
  /\ UNCHANGED <<nodeEnv, inv, coreVars, mwVars, storeVars, secureVars,
                 ctorVars, asmVars, lateVars>>

\* app.get("/", handler)
RegisterRoute(a) ==
  /\ inv.pc = "idle" /\ ~apps[a].route
  /\ apps' = [apps EXCEPT ![a].route = TRUE]
  /\ UNCHANGED <<nodeEnv, inv, coreVars, mwVars, storeVars, secureVars,
                 ctorVars, asmVars, lateVars>>

\* app.get("/sub/foo", handler)
RegisterDeep(a) ==
  /\ inv.pc = "idle" /\ ~apps[a].deep
  /\ apps' = [apps EXCEPT ![a].deep = TRUE]
  /\ UNCHANGED <<nodeEnv, inv, coreVars, mwVars, storeVars, secureVars,
                 ctorVars, asmVars, lateVars>>

\* app.use("/sub", next application)
MountSub(a) ==
  /\ inv.pc = "idle" /\ ~apps[a].sub /\ (a + 1) \in AppIds
  /\ apps' = [apps EXCEPT ![a].sub = TRUE]
  /\ UNCHANGED <<nodeEnv, inv, coreVars, mwVars, storeVars, secureVars,
                 ctorVars, asmVars, lateVars>>

\* expressWXServer({app, event}): app(req, res) runs until the response is
\* ended and the promise resolved
Invoke(a, ev) ==
  /\ inv.pc = "idle"
  /\ LET r == handle(a, ev.path, ev)
     IN inv' = [pc |-> "resolved", app |-> a, event |-> ev,
                handler |-> r.handler, callee |-> r.callee,
                outcome |-> EndOutcome(finalText(r, nodeEnv), finalStatus(r),
                                       NoContext)]
  /\ UNCHANGED <<nodeEnv, apps, coreVars, mwVars, storeVars, secureVars,
                 ctorVars, asmVars, lateVars>>

\* the caller has the response; the next invocation may start
Settle ==
  /\ inv.pc = "resolved"
  /\ inv' = NoInvocation
  /\ UNCHANGED <<nodeEnv, apps, coreVars, mwVars, storeVars, secureVars,
                 ctorVars, asmVars, lateVars>>

NextDispatch ==
  \/ \E a \in AppIds : ExtendProto(a)
  \/ \E a \in AppIds : RegisterRoute(a)
  \/ \E a \in AppIds : MountSub(a)
  \/ \E a \in AppIds, ev \in Invocations : Invoke(a, ev)
  \/ Settle

\* a parent application and the one mounted in it, both created by
\* initExpressApp(), and requests without a body
Parent == 1
Mounted == 2
OverridePaths == {<<>>, <<"sub">>, <<"sub", "foo">>}
OverrideInvocations ==
  [path : OverridePaths, contentLength : {NoLength}, contentType : {"absent"},
   body : {<<>>}]

InitOverride ==
  /\ nodeEnv \in Envs
  /\ apps = [a \in AppIds |-> NewExpress(TRUE)]
  /\ inv = NoInvocation

NextOverride ==
  \/ \E a \in {Parent, Mounted} : ExtendProto(a)
  \/ \E a \in {Parent, Mounted} : RegisterRoute(a)
  \/ RegisterDeep(Parent)
  \/ MountSub(Parent)
  \/ \E a \in {Parent, Mounted}, ev \in OverrideInvocations : Invoke(a, ev)
  \/ Settle

(***************************************************************************)
(* The operations of one MemoryStore, called directly, and their           *)
(* callbacks.  Two Session objects exist, each with its Cookie; the store  *)
(* starts empty.  A call made with a callback hands it to                  *)
(* process.nextTick or setImmediate; the callbacks of process.nextTick run *)
(* before those of setImmediate.  The arguments a callback is bound to are *)
(* written by their kinds.                                                 *)
(***************************************************************************)
\* the clock stops at MaxOpTime
MaxOpTime == 1
\* the number of calls made with a callback
MaxOpCalls == 3

OpIds == {1, 2}
OpRefs == {1, 2}
\* the expires of the two cookies: none or an early date, none or a late one
OpExpiries == [OpRefs -> {0, 1, 2}]

\* the heap as getSession reads it: each session with its cookie's expires
heapView(os, cs) == [r \in OpRefs |-> [expires |-> cs[os[r].cookie]]]

\* what getSession finds under id: nothing, an expired entry, an active one
foundUnder(id) ==
  IF opSessions[id] = 0 THEN "absent"
  ELSE IF entryExpired(opSessions, heapView(opObjs, opCookies), id, opNow)
  THEN "expired"
  ELSE "active"

\* callback.bind.apply(callback, arguments): this is arguments[0], the bound
\* arguments are the rest
bindApply(arguments) ==
  [this |-> IF arguments = <<>> THEN "undefined" ELSE Head(arguments),
   args |-> IF arguments = <<>> THEN <<>> ELSE Tail(arguments)]

\* the first argument a callback is run with
firstArg(cb) == IF cb.args = <<>> THEN "undefined" ELSE Head(cb.args)

\* the callback of call number k, as the timer will run it; ref is the
\* Session object among its arguments (0: none) and cookie the Cookie that
\* object had when the callback was queued
Queued(k, op, bound, ref, cookie) ==
  [k |-> k, op |-> op, this |-> bound.this, args |-> bound.args,
   ref |-> ref, cookie |-> cookie]

\* callback && process.nextTick(callback.bind.apply(callback, arguments))
nextTick(cb, op, arguments) ==
  IF cb
  THEN /\ opCalls < MaxOpCalls
       /\ opCalls' = opCalls + 1
       /\ opTicks' = Append(opTicks, Queued(opCalls + 1, op, bindApply(arguments), 0, 0))
  ELSE UNCHANGED <<opCalls, opTicks>>

\* setImmediate(callback, null, value); ref is the object passed as value
setImmediate(cb, op, value, ref) ==
  /\ opCalls < MaxOpCalls
  /\ opCalls' = opCalls + 1
  /\ opImmediates' =
       Append(opImmediates,
              Queued(opCalls + 1, op,
                     [this |-> "undefined", args |-> <<"null", value>>],
                     ref, IF ref = 0 THEN 0 ELSE opObjs[ref].cookie))

OpsIdle ==
  /\ opNow = 0
  /\ opCookies = [r \in OpRefs |-> 0]
  /\ opObjs = [r \in OpRefs |-> [data |-> r, cookie |-> r]]
  /\ opSessions = [id \in OpIds |-> 0]
  /\ opTicks = <<>> /\ opImmediates = <<>>
  /\ opCalls = 0
  /\ opRuns = [k \in 1..MaxOpCalls |-> 0]
  /\ opLast = [name |-> "none", id |-> 0, s |-> 0, before |-> "absent",
               phase |-> "call", cookie |-> 0]

InitOps ==
  /\ opNow = 0
  /\ opCookies \in OpExpiries
  /\ opObjs = [r \in OpRefs |-> [data |-> r, cookie |-> r]]
  /\ opSessions = [id \in OpIds |-> 0]
  /\ opTicks = <<>> /\ opImmediates = <<>>
  /\ opCalls = 0
  /\ opRuns = [k \in 1..MaxOpCalls |-> 0]
  /\ opLast = [name |-> "none", id |-> 0, s |-> 0, before |-> "absent",
               phase |-> "call", cookie |-> 0]

Called(name, id, s) ==
  [name |-> name, id |-> id, s |-> s, before |-> IF id = 0 THEN "absent"
                                                ELSE foundUnder(id),
   phase |-> "call", cookie |-> 0]

\* time passes
OpTick ==
  /\ opNow < MaxOpTime
  /\ opNow' = opNow + 1
  /\ opLast' = Called("tick", 0, 0)
  /\ UNCHANGED <<opCookies, opObjs, opSessions, opTicks, opImmediates, opCalls,
                 opRuns, opsRest>>

\* a slip that would run the callback before commit returns
OpCommit_RunsCallbackInside(id, s, cb) ==
  /\ opSessions' = [opSessions EXCEPT ![id] = s]
  /\ opLast' = Called("commit", id, s)
  /\ IF cb
     THEN /\ opCalls < MaxOpCalls
          /\ opCalls' = opCalls + 1
          /\ opRuns' = [opRuns EXCEPT ![opCalls + 1] = 1]
     ELSE UNCHANGED <<opCalls, opRuns>>
  /\ UNCHANGED <<opNow, opCookies, opObjs, opTicks, opImmediates, opsRest>>

\* store.commit(id, session, callback)
OpCommit(id, s, cb) ==
  /\ opSessions' = [opSessions EXCEPT ![id] = s]
  /\ nextTick(cb, "commit", <<"string", "object", "function">>)
  /\ opLast' = Called("commit", id, s)
  /\ UNCHANGED <<opNow, opCookies, opObjs, opImmediates, opRuns, opsRest>>

\* a slip that would put the incoming session in the place of the stored one
OpTouch_StoreIncoming(id, s, cb) ==
  /\ opSessions' =
       IF foundUnder(id) = "active" THEN [opSessions EXCEPT ![id] = s]
       ELSE afterGetSession(opSessions, heapView(opObjs, opCookies), id, opNow)
  /\ nextTick(cb, "touch", <<"string", "object", "function">>)
  /\ opLast' = Called("touch", id, s)
  /\ UNCHANGED <<opNow, opCookies, opObjs, opImmediates, opRuns, opsRest>>

\* a slip that would renew whatever is stored, expired or not
OpTouch_NoExpiryCheck(id, s, cb) ==
  /\ opObjs' = IF opSessions[id] # 0
               THEN [opObjs EXCEPT ![opSessions[id]].cookie = opObjs[s].cookie]
               ELSE opObjs
  /\ nextTick(cb, "touch", <<"string", "object", "function">>)
  /\ opLast' = Called("touch", id, s)
  /\ UNCHANGED <<opNow, opCookies, opSessions, opImmediates, opRuns, opsRest>>

\* store.touch(id, session, callback): getSession, then the entry found
\* takes the cookie of the incoming session and is set again under id
OpTouch(id, s, cb) ==
  /\ LET heap == heapView(opObjs, opCookies)
         currSession == sessionFound(opSessions, heap, id, opNow)
         afterGet == afterGetSession(opSessions, heap, id, opNow)
     IN /\ opObjs' = IF currSession # 0
                     THEN [opObjs EXCEPT ![currSession].cookie = opObjs[s].cookie]
                     ELSE opObjs
        /\ opSessions' = IF currSession # 0
                         THEN [afterGet EXCEPT ![id] = currSession]
                         ELSE afterGet
  /\ nextTick(cb, "touch", <<"string", "object", "function">>)
  /\ opLast' = Called("touch", id, s)
  /\ UNCHANGED <<opNow, opCookies, opImmediates, opRuns, opsRest>>

\* a slip that would empty the store
OpDestroy_Everything(id, cb) ==
  /\ opSessions' = [i \in OpIds |-> 0]
  /\ nextTick(cb, "destroy", <<"string", "function">>)
  /\ opLast' = Called("destroy", id, 0)
  /\ UNCHANGED <<opNow, opCookies, opObjs, opImmediates, opRuns, opsRest>>

\* the sessions map after destroy(id)
afterDestroy(map, id) == IF map[id] # 0 THEN [map EXCEPT ![id] = 0] ELSE map

\* store.destroy(id, callback)
OpDestroy(id, cb) ==
  /\ opSessions' = afterDestroy(opSessions, id)
  /\ nextTick(cb, "destroy", <<"string", "function">>)
  /\ opLast' = Called("destroy", id, 0)
  /\ UNCHANGED <<opNow, opCookies, opObjs, opImmediates, opRuns, opsRest>>

\* store.clear(callback)
OpClear(cb) ==
  /\ opSessions' = [i \in OpIds |-> 0]
  /\ nextTick(cb, "clear", <<"function">>)
  /\ opLast' = Called("clear", 0, 0)
  /\ UNCHANGED <<opNow, opCookies, opObjs, opImmediates, opRuns, opsRest>>

\* store.get(id, callback); it is called with a callback, setImmediate
\* throws without one
OpGet(id) ==
  /\ LET heap == heapView(opObjs, opCookies)
         found == sessionFound(opSessions, heap, id, opNow)
     IN /\ opSessions' = afterGetSession(opSessions, heap, id, opNow)
        /\ setImmediate(TRUE, "get",
                        IF found # 0 THEN "object" ELSE "undefined", found)
  /\ opLast' = Called("get", id, 0)
  /\ UNCHANGED <<opNow, opCookies, opObjs, opTicks, opRuns, opsRest>>

\* store.getAll(callback): getSession on every key
OpGetAll(cb) ==
  /\ opSessions' = [id \in OpIds |->
                      sessionFound(opSessions, heapView(opObjs, opCookies),
                                   id, opNow)]
  /\ IF cb THEN setImmediate(TRUE, "getAll", "object", 0)
     ELSE UNCHANGED <<opCalls, opImmediates>>
  /\ opLast' = Called("getAll", 0, 0)
  /\ UNCHANGED <<opNow, opCookies, opObjs, opTicks, opRuns, opsRest>>

\* the callback that ran: its call, the Session object it was passed and
\* the Cookie that object had when the callback was queued
Ran(cb) ==
  [name |-> cb.op, id |-> cb.k, s |-> cb.ref, before |-> "absent",
   phase |-> "callback", cookie |-> cb.cookie]

\* the oldest callback of process.nextTick runs
RunTickCallback ==
  /\ opTicks # <<>>
  /\ opRuns' = [opRuns EXCEPT ![Head(opTicks).k] = @ + 1]
  /\ opTicks' = Tail(opTicks)
  /\ opLast' = Ran(Head(opTicks))
  /\ UNCHANGED <<opNow, opCookies, opObjs, opSessions, opImmediates, opCalls,
                 opsRest>>

\* a slip that would run an immediate while tick callbacks wait
RunImmediateCallback_BeforeTicks ==
  /\ opImmediates # <<>>
  /\ opRuns' = [opRuns EXCEPT ![Head(opImmediates).k] = @ + 1]
  /\ opImmediates' = Tail(opImmediates)
  /\ opLast' = Ran(Head(opImmediates))
  /\ UNCHANGED <<opNow, opCookies, opObjs, opSessions, opTicks, opCalls,
                 opsRest>>

\* the oldest callback of setImmediate runs, once no tick callback waits
RunImmediateCallback ==
  /\ opTicks = <<>> /\ opImmediates # <<>>
  /\ opRuns' = [opRuns EXCEPT ![Head(opImmediates).k] = @ + 1]
  /\ opImmediates' = Tail(opImmediates)
  /\ opLast' = Ran(Head(opImmediates))
  /\ UNCHANGED <<opNow, opCookies, opObjs, opSessions, opTicks, opCalls,
                 opsRest>>

\* the operations called without a callback, while time passes
NextOps ==
  \/ OpTick
  \/ \E id \in OpIds, s \in OpRefs : OpCommit(id, s, FALSE)
  \/ \E id \in OpIds, s \in OpRefs : OpTouch(id, s, FALSE)
  \/ \E id \in OpIds : OpDestroy(id, FALSE)
  \/ OpClear(FALSE)
  \/ OpGetAll(FALSE)

\* the session id the calls made with a callback use
CallbackIds == {1}

\* the operations called with a callback, and the callbacks run
NextCallbacks ==
  \/ \E id \in CallbackIds, s \in OpRefs : OpCommit(id, s, TRUE)
  \/ \E id \in CallbackIds, s \in OpRefs : OpTouch(id, s, TRUE)
  \/ \E id \in CallbackIds : OpDestroy(id, TRUE)
  \/ OpClear(TRUE)
  \/ \E id \in CallbackIds : OpGet(id)
  \/ OpGetAll(TRUE)
  \/ RunTickCallback
  \/ RunImmediateCallback

\* no cookie expires while the callbacks are followed
InitCallbacks == InitOps /\ opCookies = [r \in OpRefs |-> 0]

\* the callbacks followed at a fixed time, with cookies that have expired
\* by then and cookies that have not
InitGet ==
  /\ opNow \in 0..MaxOpTime
  /\ opCookies \in OpExpiries
  /\ opObjs = [r \in OpRefs |-> [data |-> r, cookie |-> r]]
  /\ opSessions = [id \in OpIds |-> 0]
  /\ opTicks = <<>> /\ opImmediates = <<>>
  /\ opCalls = 0
  /\ opRuns = [k \in 1..MaxOpCalls |-> 0]
  /\ opLast = [name |-> "none", id |-> 0, s |-> 0, before |-> "absent",
               phase |-> "call", cookie |-> 0]

(***************************************************************************)
(* Session.reload and MemoryStore.createSession, for one request whose     *)
(* session was generated with the configured cookie options.  The session  *)
(* of the request and the one the store holds are one object, so one       *)
(* cookie is followed.  Date.now() returns the same value throughout one   *)
(* call.                                                                   *)
(***************************************************************************)
\* the number of reloads whose callback has not run yet
MaxReloads == 2

\* new Cookie(cookie) given a Cookie: Object.entries yields its fields,
\* none of them named expires or maxAge, so each is assigned as it is
cookieOfCookie(c) ==
  [alive |-> TRUE, hasOri |-> c.hasOri, ori |-> c.ori,
   hasExpires |-> c.hasExpires, expires |-> c.expires]

\* the cookie createSession leaves on the session, Date.now() returning t
createSession(c, t) ==
  LET expires == [has |-> c.hasExpires, val |-> c.expires]
      oriMaxAge == getOriMaxAge(c)
      built == cookieOfCookie(c)
      dated == IF expires.has THEN setExpires(built, expires.val, t) ELSE built
  IN IF oriMaxAge.has /\ oriMaxAge.val # 0
     THEN [dated EXCEPT !.hasOri = TRUE, !.ori = oriMaxAge.val]
     ELSE dated

\* getSession's test on the one session
rlExpired == rlCookie.hasExpires /\ rlCookie.expires <= rlNow

ReloadIdle ==
  /\ rlNow = 0
  /\ rlCookie = BlankCookie
  /\ rlStored = FALSE
  /\ rlReq = "generated"
  /\ rlPending = <<>>
  /\ rlLast = [name |-> "none", session |-> "undefined"]

\* store.generate(req) has run at time 0
InitReload ==
  /\ rlNow = 0
  /\ \E options \in CookieOptionSets : rlCookie = newCookie(options, 0, 0)
  /\ rlStored = FALSE
  /\ rlReq = "generated"
  /\ rlPending = <<>>
  /\ rlLast = [name |-> "none", session |-> "undefined"]

\* one millisecond passes
RlTick ==
  /\ rlNow < MaxTime
  /\ rlNow' = rlNow + 1
  /\ rlLast' = [name |-> "tick", session |-> "undefined"]
  /\ UNCHANGED <<rlCookie, rlStored, rlReq, rlPending, reloadRest>>

\* req.session.save(): the store holds the session
RlSave ==
  /\ rlStored' = TRUE
  /\ rlLast' = [name |-> "save", session |-> "undefined"]
  /\ UNCHANGED <<rlNow, rlCookie, rlReq, rlPending, reloadRest>>

\* the application assigns req.session.cookie.expires = date
RlSetExpires(date) ==
  /\ rlCookie' = setExpires(rlCookie, date, rlNow)
  /\ rlLast' = [name |-> "setExpires", session |-> "undefined"]
  /\ UNCHANGED <<rlNow, rlStored, rlReq, rlPending, reloadRest>>

\* req.session.reload(): store.get(this.id, callback), which runs getSession
\* and hands the callback to setImmediate with (null, session)
Reload ==
  /\ Len(rlPending) < MaxReloads
  /\ LET found == rlStored /\ ~rlExpired
     IN /\ rlStored' = found
        /\ rlPending' = Append(rlPending,
                               <<"null", IF found THEN "object" ELSE "undefined">>)
        /\ rlLast' = [name |-> "reload",
                      session |-> IF found THEN "object" ELSE "undefined"]
  /\ UNCHANGED <<rlNow, rlCookie, rlReq, reloadRest>>

\* the callback of reload runs: its parameter session is the first of its
\* arguments; if (!session) return; store.createSession(req, session)
ReloadCallback ==
  /\ rlPending # <<>>
  /\ LET session == Head(rlPending)[1]
     IN IF truthy(session)
        THEN /\ rlCookie' = createSession(rlCookie, rlNow)
             /\ rlReq' = "rebuilt"
        ELSE UNCHANGED <<rlCookie, rlReq>>
  /\ rlPending' = Tail(rlPending)
  /\ rlLast' = [name |-> "callback", session |-> Head(rlPending)[2]]
  /\ UNCHANGED <<rlNow, rlStored, reloadRest>>

\* store.createSession(req, session) called with the session of the request
CreateSession ==
  /\ rlCookie' = createSession(rlCookie, rlNow)
  /\ rlReq' = "rebuilt"
  /\ rlLast' = [name |-> "createSession", session |-> "object"]
  /\ UNCHANGED <<rlNow, rlStored, rlPending, reloadRest>>

NextReload ==
  \/ RlTick
  \/ RlSave
  \/ \E date \in Dates : RlSetExpires(date)
  \/ Reload
  \/ ReloadCallback
  \/ CreateSession

(***************************************************************************)
(* res.send of the response initExpressResponse creates, called by a route *)
(* handler as the first output of the response.  req.fresh and res.json    *)
(* are the framework's: req.fresh holds for a GET or HEAD request whose    *)
(* conditional headers match the validators of a 2xx or 304 response, and  *)
(* res.json sets Content-Type if it is absent and sends the JSON text.     *)
(***************************************************************************)
SendMethods == {"GET", "HEAD", "POST"}
SendStatusCodes == {200, 204, 205, 304, 404}
StrippedHeaders == {"Content-Type", "Content-Length", "Transfer-Encoding"}

\* the values passed to send, each with the text it is written as
SendChunks ==
  {[t |-> "undefined", text |-> <<>>], [t |-> "null", text |-> <<>>],
   [t |-> "string", text |-> <<>>], [t |-> "string", text |-> <<"hey">>],
   [t |-> "string", text |-> <<"{", "}">>],
   [t |-> "number", text |-> <<"1">>], [t |-> "boolean", text |-> <<"true">>],
   [t |-> "object", text |-> <<"{", "\"a\"", ":", "1", "}">>],
   [t |-> "buffer", text |-> <<"hey">>]}

\* req.fresh
reqFresh(r, status) ==
  /\ r.method \in {"GET", "HEAD"}
  /\ (status >= 200 /\ status < 300) \/ status = 304
  /\ r.matches

\* a slip that would pass the chunk to end whatever the method
ended_Always(r, text) == [given |-> TRUE, data |-> text]

\* what send passes to end: nothing for HEAD, else the chunk
ended(r, text) ==
  IF r.method = "HEAD" THEN [given |-> FALSE, data |-> <<>>]
  ELSE [given |-> TRUE, data |-> text]

\* a slip that would strip by the status found before freshness is applied
send_StripFirst(chunk, r, status, hs) ==
  LET defined == chunk.t # "undefined"
      h1 == hs \cup (IF defined /\ chunk.t # "null" THEN {"Content-Type"} ELSE {})
                \cup (IF defined THEN {"Content-Length", "ETag"} ELSE {})
      bare == status \in {204, 304}
      h2 == IF bare THEN h1 \ StrippedHeaders ELSE h1
      final == IF reqFresh(r, status) THEN 304 ELSE status
  IN [statusCode |-> final, headers |-> h2, found |-> reqFresh(r, status),
      end |-> ended(r, IF bare \/ final = 205 THEN <<>> ELSE chunk.text)]

\* res.send(body): the status, the headers and the call of end it makes
send(chunk, r, status, hs) ==
  LET defined == chunk.t # "undefined"
      \* a string gets a Content-Type, a Buffer too; boolean, number and
      \* object go through json, which sets one and sends the text; a chunk
      \* that is not undefined gets a Content-Length and, from the default
      \* etag fn, an ETag
      h1 == hs \cup (IF defined /\ chunk.t # "null" THEN {"Content-Type"} ELSE {})
                \cup (IF defined THEN {"Content-Length", "ETag"} ELSE {})
      found == reqFresh(r, status)
      final == IF found THEN 304 ELSE status
      bare == final \in {204, 304}
      h2 == IF bare THEN h1 \ StrippedHeaders
            ELSE IF final = 205
            THEN (h1 \cup {"Content-Length"}) \ {"Transfer-Encoding"}
            ELSE h1
  IN [statusCode |-> final, headers |-> h2, found |-> found,
      end |-> ended(r, IF bare \/ final = 205 THEN <<>> ELSE chunk.text)]

NotEnded == [given |-> FALSE, data |-> <<"-">>]
NotSent == [chunk |-> [t |-> "undefined", text |-> <<>>], found |-> FALSE,
            status |-> 0, headers |-> {}]

SendIdle ==
  /\ sdReq = [method |-> "GET", matches |-> FALSE]
  /\ sdStatus = 200 /\ sdHeaders = {} /\ sdPc = "idle"
  /\ sdEnded = NotEnded /\ sdOutcome = NoOutcome /\ sdLast = NotSent

\* the request has reached a route handler
InitSend ==
  /\ sdReq \in [method : SendMethods, matches : BOOLEAN]
  /\ sdStatus = 200 /\ sdHeaders = {} /\ sdPc = "handler"
  /\ sdEnded = NotEnded /\ sdOutcome = NoOutcome /\ sdLast = NotSent

\* the handler calls res.status(code)
SendStatus(code) ==
  /\ sdPc = "handler"
  /\ sdStatus' = code
  /\ UNCHANGED <<sdReq, sdHeaders, sdPc, sdEnded, sdOutcome, sdLast, sendRest>>

\* the handler calls res.set(name, value)
SendSet(name) ==
  /\ sdPc = "handler"
  /\ sdHeaders' = sdHeaders \cup {name}
  /\ UNCHANGED <<sdReq, sdStatus, sdPc, sdEnded, sdOutcome, sdLast, sendRest>>

\* the handler calls res.send(chunk); the wrapped end writes the data it is
\* given, if any, and resolves the promise
Send(chunk) ==
  /\ sdPc = "handler"
  /\ LET r == send(chunk, sdReq, sdStatus, sdHeaders)
         written == IF r.end.given /\ r.end.data # <<>> THEN r.end.data ELSE <<>>
     IN /\ sdStatus' = r.statusCode
        /\ sdHeaders' = r.headers
        /\ sdEnded' = r.end
        /\ sdOutcome' = EndOutcome(written, r.statusCode, NoContext)
        /\ sdLast' = [chunk |-> chunk, found |-> r.found, status |-> sdStatus,
                      headers |-> sdHeaders]
  /\ sdPc' = "sent"
  /\ UNCHANGED <<sdReq, sendRest>>

NextSend ==
  \/ \E code \in SendStatusCodes : SendStatus(code)
  \/ \E name \in StrippedHeaders : SendSet(name)
  \/ \E chunk \in SendChunks : Send(chunk)

(***************************************************************************)
(* A param handler configured through initExpressApp({params}) and routes  *)
(* with one URL parameter.  The handler is the one of the tests: it        *)
(* converts the value with Number, passes "route" on for NaN and otherwise *)
(* assigns the number to req.params.id; every route handler sends          *)
(* typeof req.params.id + ":" + req.params.id.  Matching a route and       *)
(* running the handlers of its parameters are the framework's.             *)
(***************************************************************************)
\* the routes the application may register: "/post/:id", "/user/:uid" and
\* "/user/:id"
RoutePatterns ==
  {[at |-> "post", key |-> "id"], [at |-> "user", key |-> "uid"],
   [at |-> "user", key |-> "id"]}

\* the name of a params entry: a string, or an array of strings
ParamConfigs ==
  {[array |-> FALSE, names |-> <<"id">>], [array |-> FALSE, names |-> <<"uid">>],
   [array |-> TRUE, names |-> <<"id", "uid">>],
   [array |-> TRUE, names |-> <<"uid", "id">>],
   [array |-> TRUE, names |-> <<>>]}

\* the paths of the events: "/user/123", "/post/123", "/user/abc", "/post/abc"
ParamPaths == {<<a, v>> : a \in {"user", "post"}, v \in {"123", "abc"}}

\* a slip that would register the handler for the first name only
registeredFor_FirstOnly(param) ==
  IF param.names = <<>> THEN {} ELSE {param.names[1]}

\* _app.param(param.name, param.handler): the parameter names the handler
\* is registered for
registeredFor(param) ==
  IF param.array THEN {param.names[i] : i \in DOMAIN param.names}
  ELSE {param.names[1]}

\* isNaN(Number(value))
isNaNNumber(value) == value # "123"

NotFound == [kind |-> "next", at |-> 0, ran |-> FALSE, text |-> <<"Cannot GET ">>]
Answered(i, ran, type, value) ==
  [kind |-> "sent", at |-> i, ran |-> ran, text |-> <<type, ":", value>>]

\* the router over the routes from the i-th on: the first route that matches
\* the path and whose param handler does not pass "route" on answers
RECURSIVE matchRoutes(_, _, _, _)
matchRoutes(routes, i, p, names) ==
  IF i > Len(routes) THEN NotFound
  ELSE IF routes[i].at # p[1] THEN matchRoutes(routes, i + 1, p, names)
  ELSE IF routes[i].key \in names
  THEN IF isNaNNumber(p[2]) THEN matchRoutes(routes, i + 1, p, names)
       ELSE Answered(i, TRUE, "number", p[2])
  ELSE IF routes[i].key = "id" THEN Answered(i, FALSE, "string", p[2])
  ELSE Answered(i, FALSE, "undefined", "undefined")

NoParamInvocation ==
  [pc |-> "idle", path |-> <<>>, at |-> 0, ran |-> FALSE, outcome |-> NoOutcome]

RouteIdle ==
  /\ rpParam = [array |-> TRUE, names |-> <<>>]
  /\ rpRoutes = <<>>
  /\ rpInv = NoParamInvocation

\* initExpressApp({params: [{name, handler}]}) has returned
InitRoute ==
  /\ rpParam \in ParamConfigs
  /\ rpRoutes = <<>>
  /\ rpInv = [NoParamInvocation EXCEPT !.pc = "ready"]

\* app.get(pattern, handler)
RouteGet(pattern) ==
  /\ rpInv.pc = "ready"
  /\ \A i \in DOMAIN rpRoutes : rpRoutes[i] # pattern
  /\ rpRoutes' = Append(rpRoutes, pattern)
  /\ UNCHANGED <<rpParam, rpInv, routeRest>>

\* expressWXServer({app, event: {path}}) runs until the promise resolves
RouteInvoke(p) ==
  /\ rpInv.pc = "ready"
  /\ LET r == matchRoutes(rpRoutes, 1, p, registeredFor(rpParam))
     IN rpInv' = [pc |-> "resolved", path |-> p, at |-> r.at, ran |-> r.ran,
                  outcome |-> EndOutcome(r.text,
                                         IF r.kind = "sent" THEN 200 ELSE 404,
                                         NoContext)]
  /\ UNCHANGED <<rpParam, rpRoutes, routeRest>>

\* the caller has the response; the next invocation may start
RouteSettle ==
  /\ rpInv.pc = "resolved"
  /\ rpInv' = [NoParamInvocation EXCEPT !.pc = "ready"]
  /\ UNCHANGED <<rpParam, rpRoutes, routeRest>>

NextRoute ==
  \/ \E pattern \in RoutePatterns : RouteGet(pattern)
  \/ \E p \in ParamPaths : RouteInvoke(p)
  \/ RouteSettle

(***************************************************************************)
(* The wrapped write and end of the responses of two invocations that run  *)
(* against one application; their handlers call write and end in any       *)
(* order.  A chunk is a string or a Buffer; a Buffer holds bytes, and the  *)
(* byte FF is not valid UTF-8.  The arguments of a call are given by       *)
(* position, as the wrappers receive them.                                 *)
(***************************************************************************)
\* the number of calls of write and end, over both invocations
MaxCaptureCalls == 3

CaptureInvs == {1, 2}
CaptureStatusCodes == {200, 404}
CaptureChunks ==
  {[buf |-> FALSE, units |-> <<>>], [buf |-> FALSE, units |-> <<"a">>],
   [buf |-> FALSE, units |-> <<"{", "}">>], [buf |-> TRUE, units |-> <<"b", "FF">>]}

NoChunk == [buf |-> FALSE, units |-> <<>>]
ChunkArg(c) == [kind |-> "chunk", chunk |-> c]
EncodingArg == [kind |-> "encoding", chunk |-> NoChunk]
FunctionArg == [kind |-> "function", chunk |-> NoChunk]

\* write(chunk), write(chunk, cb), write(chunk, encoding), write(chunk,
\* encoding, cb)
WriteShapes ==
  UNION {{<<ChunkArg(c)>>, <<ChunkArg(c), FunctionArg>>,
          <<ChunkArg(c), EncodingArg>>,
          <<ChunkArg(c), EncodingArg, FunctionArg>>} : c \in CaptureChunks}

\* end(), end(cb), end(chunk), end(chunk, cb), end(chunk, encoding),
\* end(chunk, encoding, cb)
EndShapes ==
  {<<>>, <<FunctionArg>>}
    \cup UNION {{<<ChunkArg(c)>>, <<ChunkArg(c), FunctionArg>>,
                 <<ChunkArg(c), EncodingArg>>,
                 <<ChunkArg(c), EncodingArg, FunctionArg>>} : c \in CaptureChunks}

\* the options.wxContext of each invocation
ctxOf(i) ==
  IF i = 1 THEN NoContext
  ELSE [given |-> TRUE, OPENID |-> JStr(<<"OID">>), APPID |-> JUndef,
        UNIONID |-> JUndef]

\* bytes read as UTF-8: an invalid byte becomes the replacement character
utf8(units) ==
  [k \in DOMAIN units |-> IF units[k] = "FF" THEN "FFFD" ELSE units[k]]

\* Buffer.isBuffer(chunk) ? Buffer.from(chunk, 'base64').toString('utf8')
\*                        : chunk.toString()
toText(chunk) == IF chunk.buf THEN utf8(chunk.units) ELSE chunk.units

\* one accumulator for every invocation
accumulatorOf_Shared(i) == 1

\* the accumulator the wrappers of invocation i close over: resBody is
\* declared inside the call of expressWXServer
accumulatorOf(i) == i

\* resBody = chunk in the place of resBody += chunk
afterWrite_Overwrites(text, chunk) == toText(chunk)

\* resBody += the text of the chunk
afterWrite(text, chunk) == text \o toText(chunk)

\* the data end takes from its arguments: none when the first is a
\* function or there is none
endData(args) ==
  IF args = <<>> \/ args[1].kind = "function"
  THEN [given |-> FALSE, chunk |-> NoChunk]
  ELSE [given |-> TRUE, chunk |-> args[1].chunk]

\* if (data): a Buffer is an object, a string counts when it is not empty
truthyData(d) == d.given /\ (d.chunk.buf \/ d.chunk.units # <<>>)

NoGhost == [log |-> <<>>, status |-> 0]

CaptureIdle ==
  /\ cpBody = [a \in CaptureInvs |-> <<>>]
  /\ cpStatus = [i \in CaptureInvs |-> 200]
  /\ cpPromise = [i \in CaptureInvs |-> "idle"]
  /\ cpOutcome = [i \in CaptureInvs |-> NoOutcome]
  /\ cpEnds = [i \in CaptureInvs |-> 0]
  /\ cpWire = [i \in CaptureInvs |-> 0]
  /\ cpGhost = [i \in CaptureInvs |-> NoGhost]
  /\ cpCalls = 0

\* both invocations have called app(req, res)
InitCapture ==
  /\ cpBody = [a \in CaptureInvs |-> <<>>]
  /\ cpStatus = [i \in CaptureInvs |-> 200]
  /\ cpPromise = [i \in CaptureInvs |-> "pending"]
  /\ cpOutcome = [i \in CaptureInvs |-> NoOutcome]
  /\ cpEnds = [i \in CaptureInvs |-> 0]
  /\ cpWire = [i \in CaptureInvs |-> 0]
  /\ cpGhost = [i \in CaptureInvs |-> NoGhost]
  /\ cpCalls = 0

\* a handler of invocation i sets res.statusCode
CaptureStatus(i, code) ==
  /\ cpStatus[i] # code
  /\ cpStatus' = [cpStatus EXCEPT ![i] = code]
  /\ UNCHANGED <<cpBody, cpPromise, cpOutcome, cpEnds, cpWire, cpGhost,
                 cpCalls, captureRest>>

\* a slip that would resolve the promise in write
CaptureWrite_Resolves(i, args) ==
  /\ cpCalls < MaxCaptureCalls
  /\ cpCalls' = cpCalls + 1
  /\ cpBody' = [cpBody EXCEPT ![accumulatorOf(i)] = afterWrite(@, args[1].chunk)]
  /\ cpWire' = [cpWire EXCEPT ![i] = @ + Len(args[1].chunk.units)]
  /\ cpPromise' = [cpPromise EXCEPT ![i] = "resolved"]
  /\ cpOutcome' = [cpOutcome EXCEPT
                     ![i] = EndOutcome(cpBody'[accumulatorOf(i)], cpStatus[i],
                                       ctxOf(i))]
  /\ UNCHANGED <<cpStatus, cpEnds, cpGhost, captureRest>>

\* res.write(chunk, encodingOrCallback, callback) of invocation i: the text
\* joins the accumulator and the chunk goes to the unwrapped write
CaptureWrite(i, args) ==
  /\ cpCalls < MaxCaptureCalls
  /\ cpCalls' = cpCalls + 1
  /\ cpBody' = [cpBody EXCEPT ![accumulatorOf(i)] = afterWrite(@, args[1].chunk)]
  /\ cpWire' = [cpWire EXCEPT ![i] = @ + Len(args[1].chunk.units)]
  /\ cpGhost' = IF cpEnds[i] = 0
                THEN [cpGhost EXCEPT ![i].log = Append(@, args[1].chunk)]
                ELSE cpGhost
  /\ UNCHANGED <<cpStatus, cpPromise, cpOutcome, cpEnds, captureRest>>

\* res.end(chunk, encodingOrCb, cb) of invocation i: data that counts is
\* turned into text and passed to this.write, the promise is resolved, and
\* the data is passed to the unwrapped end
CaptureEnd(i, args) ==
  /\ cpCalls < MaxCaptureCalls
  /\ cpCalls' = cpCalls + 1
  /\ LET d == endData(args)
         a == accumulatorOf(i)
         data == [buf |-> FALSE, units |-> toText(d.chunk)]
         text == IF truthyData(d) THEN afterWrite(cpBody[a], data)
                 ELSE cpBody[a]
         viaWrite == IF truthyData(d) THEN Len(data.units) ELSE 0
         viaEnd == IF truthyData(d) THEN Len(data.units)
                   ELSE IF d.given THEN Len(d.chunk.units) ELSE 0
     IN /\ cpBody' = [cpBody EXCEPT ![a] = text]
        /\ cpWire' = [cpWire EXCEPT ![i] = @ + viaWrite + viaEnd]
        /\ IF cpPromise[i] = "pending"
           THEN /\ cpPromise' = [cpPromise EXCEPT ![i] = "resolved"]
                /\ cpOutcome' = [cpOutcome EXCEPT
                                   ![i] = EndOutcome(text, cpStatus[i], ctxOf(i))]
           ELSE UNCHANGED <<cpPromise, cpOutcome>>
        /\ cpGhost' =
             IF cpEnds[i] = 0
             THEN [cpGhost EXCEPT
                     ![i] = [log |-> IF args # <<>> /\ args[1].kind = "chunk"
                                     THEN Append(@.log, args[1].chunk)
                                     ELSE @.log,
                             status |-> cpStatus[i]]]
             ELSE cpGhost
  /\ cpEnds' = [cpEnds EXCEPT ![i] = @ + 1]
  /\ UNCHANGED <<cpStatus, captureRest>>

NextCapture ==
  \/ \E i \in CaptureInvs, code \in CaptureStatusCodes : CaptureStatus(i, code)
  \/ \E i \in CaptureInvs, args \in WriteShapes : CaptureWrite(i, args)
  \/ \E i \in CaptureInvs, args \in EndShapes : CaptureEnd(i, args)

NextSession ==
  \/ Tick
  \/ \E d \in Skews : Generate(d)
  \/ Save
  \/ \E id \in Ids : Get(id)
  \/ \E d \in Skews : SessionTouch(d)
  \/ \E date \in Dates : SetExpires(date)

NextBridge ==
  \/ InitExpressApp
  \/ Dispatch
  \/ \E code \in StatusCodes : SetStatus(code)
  \/ \E chunk \in Chunks : Write(chunk)
  \/ \E data \in Chunks \cup {<<>>} : End(data)

NextParams == Normalize

\* the later parts at rest
LateIdle == OpsIdle /\ ReloadIdle /\ SendIdle /\ RouteIdle /\ CaptureIdle

\* the added parts at rest
ExtIdle ==
  /\ MiddlewareIdle /\ StoresIdle /\ SecureIdle /\ CtorIdle /\ AsmIdle
  /\ DispatchIdle /\ LateIdle

InitP == InitParams /\ BridgeIdle /\ SessionIdle /\ ExtIdle
InitB == InitBridge /\ ParamsIdle /\ SessionIdle /\ ExtIdle
InitS == InitSession /\ ParamsIdle /\ BridgeIdle /\ ExtIdle
CoreIdle == ParamsIdle /\ BridgeIdle /\ SessionIdle
InitM == InitMiddleware /\ CoreIdle /\ StoresIdle /\ SecureIdle /\ CtorIdle /\ AsmIdle
  /\ DispatchIdle /\ LateIdle
InitSt == InitStores /\ CoreIdle /\ MiddlewareIdle /\ SecureIdle /\ CtorIdle /\ AsmIdle
  /\ DispatchIdle /\ LateIdle
InitSec == InitSecure /\ CoreIdle /\ MiddlewareIdle /\ StoresIdle /\ CtorIdle /\ AsmIdle
  /\ DispatchIdle /\ LateIdle
InitA == InitAsm /\ CoreIdle /\ MiddlewareIdle /\ StoresIdle /\ SecureIdle /\ CtorIdle
  /\ DispatchIdle /\ LateIdle
InitD == InitDispatch /\ CoreIdle /\ MiddlewareIdle /\ StoresIdle /\ SecureIdle
  /\ CtorIdle /\ AsmIdle /\ LateIdle
InitC == InitCtor /\ CoreIdle /\ MiddlewareIdle /\ StoresIdle /\ SecureIdle /\ AsmIdle
  /\ DispatchIdle /\ LateIdle

\* everything but the later parts at rest
BaseIdle ==
  /\ CoreIdle /\ MiddlewareIdle /\ StoresIdle /\ SecureIdle /\ CtorIdle
  /\ AsmIdle /\ DispatchIdle
InitO == InitOps /\ BaseIdle /\ ReloadIdle /\ SendIdle /\ RouteIdle
  /\ CaptureIdle
InitCb == InitCallbacks /\ BaseIdle /\ ReloadIdle /\ SendIdle /\ RouteIdle
  /\ CaptureIdle
InitR == InitReload /\ BaseIdle /\ OpsIdle /\ SendIdle /\ RouteIdle
  /\ CaptureIdle
InitOv == InitOverride /\ CoreIdle /\ MiddlewareIdle /\ StoresIdle /\ SecureIdle
  /\ CtorIdle /\ AsmIdle /\ LateIdle
InitRt == InitRoute /\ BaseIdle /\ OpsIdle /\ ReloadIdle /\ SendIdle
  /\ CaptureIdle
InitCp == InitCapture /\ BaseIdle /\ OpsIdle /\ ReloadIdle /\ SendIdle
  /\ RouteIdle
InitG == InitGet /\ BaseIdle /\ ReloadIdle /\ SendIdle /\ RouteIdle
  /\ CaptureIdle
InitSd == InitSend /\ BaseIdle /\ OpsIdle /\ ReloadIdle /\ RouteIdle
  /\ CaptureIdle

SpecParams == InitP /\ [][NextParams]_vars

SpecBridge == InitB /\ [][NextBridge]_vars

SpecSession == InitS /\ [][NextSession]_vars

SpecMiddleware == InitM /\ [][NextMiddleware]_vars

SpecStores == InitSt /\ [][NextStores]_vars

SpecSecure == InitSec /\ [][NextSecure]_vars

SpecCtor == InitC /\ [][NextCtor]_vars

SpecAsm == InitA /\ [][NextAsm]_vars

SpecDispatch == InitD /\ [][NextDispatch]_vars

SpecStoreOps == InitO /\ [][NextOps]_vars

SpecOverride == InitOv /\ [][NextOverride]_vars

SpecRoute == InitRt /\ [][NextRoute]_vars

SpecGet == InitG /\ [][NextCallbacks]_vars

SpecCapture == InitCp /\ [][NextCapture]_vars

SpecSend == InitSd /\ [][NextSend]_vars

SpecReload == InitR /\ [][NextReload]_vars

SpecCallbacks == InitCb /\ [][NextCallbacks]_vars

\* the event loop runs every callback handed to it
SpecCallbacksFair ==
  /\ InitCb /\ [][NextCallbacks]_vars
  /\ WF_vars(RunTickCallback) /\ WF_vars(RunImmediateCallback)

(***************************************************************************)
(* Claims about getExpressParams (checked under SpecParams)                *)
(***************************************************************************)
Defaults ==
  [path |-> Str(<<"/">>), httpMethod |-> Str(<<"G", "E", "T">>),
   headers |-> Obj(<<>>), queryStringParameters |-> Obj(<<>>),
   body |-> Str(<<>>), isBase64Encoded |-> Bool(FALSE)]

\* C5: for the event in which path, httpMethod, headers,
\* queryStringParameters, body and isBase64Encoded are all missing,
\* getExpressParams returns "/", "GET", {}, {}, "" and false.
C5_AllMissingGivesDefaults ==
  (normalized /\ event = EmptyEvent) => params = Defaults

\* C5 witness: getExpressParams has returned for the all-missing event.
C5_Witness == normalized /\ event = EmptyEvent

\* C6 (the claim as stated): whatever the type of each field, the result has
\* a string path, an upper-cased string method, mappings for headers and
\* query and a string body, and every absent or wrong-typed field is at its
\* default.
C6_NeverPassesWrongType ==
  normalized =>
    /\ params.path.t = "string"
    /\ params.httpMethod.t = "string"
    /\ toUpperCase(params.httpMethod.v) = params.httpMethod.v
    /\ params.headers.t = "object"
    /\ params.queryStringParameters.t = "object"
    /\ params.body.t = "string"
    /\ params.isBase64Encoded.t = "boolean"
    /\ (event.path.t # "string" => params.path = Defaults.path)
    /\ (event.httpMethod.t # "string"
          => params.httpMethod = Defaults.httpMethod)
    /\ (event.headers.t # "object" => params.headers = Defaults.headers)
    /\ (event.queryStringParameters.t # "object"
          => params.queryStringParameters = Defaults.queryStringParameters)
    /\ (event.body.t # "string" => params.body = Defaults.body)
    /\ (event.isBase64Encoded.t # "boolean"
          => params.isBase64Encoded = Defaults.isBase64Encoded)

(***************************************************************************)
(* Claims about expressWXServer (checked under SpecBridge)                 *)
(***************************************************************************)
\* C1: the Outcome is settled exactly once, by the first end() call, with
\* the status code and the accumulated body as they are at that moment;
\* write() never settles it, and every later end() or write() leaves the
\* resolved {statusCode, body} unchanged.
C1_SettledOnceByFirstEnd ==
  [][/\ (promise = "resolved" => promise' = "resolved" /\ outcome' = outcome)
     /\ (pcInv = "dispatch" /\ promise = "pending" /\ endCalls' # endCalls
           => /\ promise' = "resolved"
              /\ outcome' = EndOutcome(resBody', statusCode, wxContext))
     /\ (pcInv = "dispatch" /\ promise = "pending" /\ endCalls' = endCalls
           => promise' = "pending" /\ outcome' = NoOutcome)]_vars

\* C1 witness: end() was called twice, and the status set after the first
\* end() differs from the resolved one.
C1_Witness ==
  promise = "resolved" /\ endCalls >= 2 /\ statusCode # outcome.statusCode

\* C2 (the claim as stated): the resolved body is a string whatever the
\* accumulated text is.
C2_BodyIsString == promise = "resolved" => outcome.body.t = "string"

\* C3: when the accumulated buffer does not parse as JSON at the first
\* end(), the resolved body is exactly that buffer, a string with nothing
\* added.
C3_RawBodyWhenNotJSON ==
  [][(promise = "pending" /\ promise' = "resolved" /\ ~JSONparse(resBody').ok)
       => outcome'.body = Str(resBody')]_vars

\* C3 witness: a non-empty buffer that is not JSON was resolved as it stands.
C3_Witness ==
  /\ promise = "resolved" /\ resBody # <<>> /\ ~JSONparse(resBody).ok
  /\ outcome.body = Str(resBody)

\* the entries of an object as a function from key to value
EntriesOf(x) ==
  [key \in {x.keys[i] : i \in 1..Len(x.keys)} |->
     x.vals[CHOOSE i \in 1..Len(x.keys) : x.keys[i] = key]]

\* C4 under its reading of "merge": w is v with only a wxContext field added
MergedInto(v, w, ctx) ==
  /\ w.k = v.k
  /\ "\"wxContext\"" \in DOMAIN EntriesOf(w)
  /\ LET wx == EntriesOf(w)["\"wxContext\""]
         f == wxContextField(ctx)
     IN /\ wx.k = "object"
        /\ \A i \in 1..Len(f.keys) :
             IF f.vals[i].k = "undefined"
             THEN f.keys[i] \notin DOMAIN EntriesOf(wx)
             ELSE /\ f.keys[i] \in DOMAIN EntriesOf(wx)
                  /\ EntriesOf(wx)[f.keys[i]] = f.vals[i]
        /\ DOMAIN EntriesOf(wx) \subseteq {f.keys[i] : i \in 1..Len(f.keys)}
  /\ IF v.k = "array"
     THEN w.vals = v.vals
     ELSE /\ \A key \in DOMAIN EntriesOf(v) :
               key \in DOMAIN EntriesOf(w) /\ EntriesOf(w)[key] = EntriesOf(v)[key]
          /\ DOMAIN EntriesOf(w) \subseteq DOMAIN EntriesOf(v) \cup {"\"wxContext\""}

\* C4 (the claim as stated): when the buffer parses as an object or an array
\* v, the resolved body is JSON text of a value of the same kind that keeps
\* every entry of v and adds only the wxContext field.
C4_MergeKeepsKindAndEntries ==
  [][(promise = "pending" /\ promise' = "resolved"
      /\ JSONparse(resBody').ok
      /\ JSONparse(resBody').val.k \in {"object", "array"})
       => /\ outcome'.body.t = "string"
          /\ JSONparse(outcome'.body.v).ok
          /\ MergedInto(JSONparse(resBody').val, JSONparse(outcome'.body.v).val,
                        wxContext)]_vars

\* C7 (the claim as stated): the promise expressWXServer returned never
\* rejects.
C7_NeverRejects == promise # "rejected"

(***************************************************************************)
(* Claims about the session middleware (checked under SpecSession)         *)
(***************************************************************************)
\* the cookie of the request's session (0: none)
ReqCookie == IF req.session = 0 THEN 0 ELSE sessObj[req.session].cookie

\* C8: store.get(id) at time now yields no session and removes the entry
\* when the stored session's cookie has expires <= now; otherwise it yields
\* the stored session and leaves the store as it is.  The passage of time
\* alone removes nothing.
C8_GetExpiresLazily ==
  [][/\ \A id \in Ids :
          Get(id) =>
            LET ref == sessions[id]
                got == scheduled'
                expired == /\ ref # 0
                           /\ sessObj[ref].cookie # 0
                           /\ cookieObj[sessObj[ref].cookie].hasExpires
                           /\ cookieObj[sessObj[ref].cookie].expires <= now
            IN /\ got.id = id
               /\ IF expired
                  THEN /\ got.session = 0
                       /\ sessions' = [sessions EXCEPT ![id] = 0]
                  ELSE /\ got.session = ref
                       /\ sessions' = sessions
               /\ sessObj' = sessObj /\ cookieObj' = cookieObj
     /\ (Tick => sessions' = sessions /\ sessObj' = sessObj
                 /\ cookieObj' = cookieObj)]_vars

\* C8 witness: the get that ran last found a stored session whose cookie had
\* expired, handed no session to its callback and removed the entry.
C8_Witness ==
  /\ lastOp.name = "get" /\ lastOp.found # 0
  /\ sessObj[lastOp.found].cookie # 0
  /\ cookieObj[sessObj[lastOp.found].cookie].hasExpires
  /\ cookieObj[sessObj[lastOp.found].cookie].expires <= now
  /\ scheduled.id = sessObj[lastOp.found].id /\ scheduled.session = 0
  /\ sessions[scheduled.id] = 0

\* C9 (the claim as stated): touch() at time t on a session whose cookie was
\* constructed with maxAge M sets expires to t + M and leaves the original
\* maxAge equal to M, however much of the countdown had elapsed.
C9_TouchResetsToConfigured ==
  [][\A d \in Skews :
       (SessionTouch(d) /\ requested[ReqCookie].maxAge # 0)
         => /\ cookieObj'[ReqCookie].hasExpires
            /\ cookieObj'[ReqCookie].expires = now + requested[ReqCookie].maxAge
            /\ cookieObj'[ReqCookie].hasOri
            /\ cookieObj'[ReqCookie].ori = requested[ReqCookie].maxAge]_vars

\* C10 (the claim as stated): after a Cookie is created with maxAge M, clock
\* advances and assignments to cookie.expires leave getOriMaxAge() equal to M.
C10_OriginalSurvivesAssignment ==
  [][\A c \in CookieRefs :
       ((Tick \/ \E date \in Dates : SetExpires(date))
        /\ requested[c].maxAge # 0
        /\ cookieObj[c].hasOri /\ cookieObj[c].ori = requested[c].maxAge)
         => cookieObj'[c].hasOri /\ cookieObj'[c].ori = requested[c].maxAge]_vars

(***************************************************************************)
(* Claims about the middleware function (checked under SpecMiddleware)     *)
(***************************************************************************)
\* C11 (the claim as stated): for every request, with or without a session,
\* the store ready or not, the middleware has called next() exactly once
\* when it returns.
C11_NextCalledOnce == mwReq.state = "returned" => mwReq.nextCalls = 1

(***************************************************************************)
(* Claims about the stores of two middlewares (checked under SpecStores)   *)
(***************************************************************************)
\* what get(id), for every id, and getAll() hand to their callbacks on the
\* store of middleware b: the sessions found, with their contents
ViewOf(st, heap, t, b) ==
  [id \in SessionIds |->
     LET r == sessionFound(st[storeOf(b)], heap, id, t)
     IN IF r = 0 THEN <<0, NoObj>> ELSE <<r, heap[r]>>]

\* a commit, touch, destroy, clear or regenerate made through the store of a
ThroughStore(a) ==
  \/ \E r \in Refs : Commit(a, r)
  \/ \E id \in SessionIds, r \in Refs : Touch(a, id, r)
  \/ \E id \in SessionIds : Destroy(a, id)
  \/ Clear(a)
  \/ Regenerate(a)
  \/ (RunNextTick /\ Head(ticks) = a)

C14_DestroyThenGenerate ==
  [][/\ \A m \in Middlewares :
          Regenerate(m) =>
            /\ reqOf[m].sessionId # 0 =>
                 stores'[storeOf(m)][reqOf[m].sessionId] = 0
            /\ reqOf' = reqOf /\ objs' = objs
            /\ ticks' = Append(ticks, m)
     /\ \A m \in Middlewares :
          (reqOf[m].sessionId # 0 /\ reqOf'[m].sessionId # reqOf[m].sessionId)
            => /\ RunNextTick /\ Head(ticks) = m
               /\ stores' = stores
               /\ LET new == reqOf'[m]
                  IN /\ new.session # 0
                     /\ ~objs[new.session].alive
                     /\ objs'[new.session].alive
                     /\ objs'[new.session].id = new.sessionId
                     /\ \A r \in Refs : objs[r].alive => objs[r].id # new.sessionId
                     /\ \A st \in Middlewares : stores[st][new.sessionId] = 0]_vars

\* C14 witness: the request of a middleware carries a second session with a
\* new id, its first session is no longer in the store, no callback waits.
C14_Witness ==
  \E m \in Middlewares, old \in Refs :
    /\ objs[old].alive /\ objs[old].req = m
    /\ reqOf[m].session # 0 /\ reqOf[m].session # old
    /\ reqOf[m].sessionId = objs[reqOf[m].session].id
    /\ reqOf[m].sessionId # objs[old].id
    /\ stores[storeOf(m)][objs[old].id] = 0
    /\ ticks = <<>>

\* C15: immediately after session.destroy() the owning request has no
\* session property and the store has no entry for the session's id,
\* whether that entry was active, expired or absent.
C15_DestroyDetachesAndRemoves ==
  [][\A r \in Refs :
       SessionDestroy(r)
         => /\ reqOf'[objs[r].req].session = 0
            /\ stores'[storeOf(objs[r].req)][objs[r].id] = 0]_vars

\* C15 witness: a request that had a session, now expired, has lost it, and
\* the store has no entry for its id.
C15_Witness ==
  \E m \in Middlewares :
    /\ reqOf[m].sessionId # 0 /\ reqOf[m].session = 0
    /\ stores[storeOf(m)][reqOf[m].sessionId] = 0
    /\ \E r \in Refs : /\ objs[r].alive /\ objs[r].id = reqOf[m].sessionId
                       /\ objs[r].expires # 0 /\ objs[r].expires <= clock

(***************************************************************************)
(* Claims about isSecure (checked under SpecSecure)                        *)
(***************************************************************************)
\* the first comma-separated entry of a header value, lower-cased, trimmed
FirstEntry(value) ==
  LET v == IF value = Absent THEN <<>> ELSE value
      index == indexOfComma(v)
  IN trim(toLowerCase(IF index # 0 THEN SubSeq(v, 1, index - 1) ELSE v))

\* C13 (the claim as stated): with trustProxy false the result is false;
\* with trustProxy unset it is true iff req.secure is true; with trustProxy
\* true it is true iff the first entry of the request's forwarded-protocol
\* header is "https".
C13_SecureFollowsTrustProxy ==
  secureResult # "none" =>
    (secureResult = "true") =
      (IF trustProxy = "false" THEN FALSE
       ELSE IF trustProxy = "undefined" THEN secReq.secure = "true"
       ELSE FirstEntry(secReq.header[ForwardedProto]) = <<"https">>)

(***************************************************************************)
(* Claims about the constructor of Session (checked under SpecCtor)        *)
(***************************************************************************)
\* C16: a stored field is copied onto the new instance iff its value is not
\* null and the field is absent or falsy on the fresh instance; so with a
\* non-empty req.sessionId the id and req of the instance are the request's,
\* never the stored ones.
C16_StoredFillsOnlyGaps ==
  ctorInstance # Unbuilt =>
    /\ \A k \in Fields :
         LET fresh == freshInstance(ctorSessionId)[k]
             gap == fresh \in {"absent", "undefined", "0", ""}
         IN IF ctorStored[k] \notin {"absent", "null"} /\ gap
            THEN ctorInstance[k] = ctorStored[k]
            ELSE ctorInstance[k] = fresh
    /\ ctorSessionId # "" => /\ ctorInstance["id"] = ctorSessionId
                             /\ ctorInstance["req"] = "the-request"

\* C16 witness: stored data with its own id and req, a null cookie and a
\* data field was merged into an instance for a request with an id.
C16_Witness ==
  /\ ctorInstance # Unbuilt
  /\ ctorSessionId = "req-id"
  /\ ctorStored["id"] = "stored" /\ ctorStored["req"] = "stored"
  /\ ctorStored["cookie"] = "null" /\ ctorStored["data"] = "stored"
  /\ ctorInstance["id"] = "req-id" /\ ctorInstance["data"] = "stored"
  /\ ctorInstance["cookie"] = "absent"

(***************************************************************************)
(* Claims about initExpressApp (checked under SpecAsm)                     *)
(***************************************************************************)
\* the value a setting ends with when the latest step that names it wins
LatestWins(cfg, k) ==
  LET named == {i \in 1..Len(cfg.setters) : cfg.setters[i].setting = k}
  IN IF named # {}
     THEN cfg.setters[CHOOSE i \in named : \A j \in named : j <= i].val
     ELSE IF \E i \in 1..Len(cfg.enableSettings) : cfg.enableSettings[i] = k
          THEN "true"
          ELSE IF \E i \in 1..Len(cfg.disableSettings) : cfg.disableSettings[i] = k
               THEN "false"
               ELSE "unset"

\* C17: the hook is awaited first and nothing is configured before it has
\* settled; then disable-settings, enable-settings, setters, param handlers,
\* listeners and handlers are applied, in that order; a setting named in
\* several lists ends with the value of the latest step (enable over
\* disable, a setter over both).
C17_AssemblyOrder ==
  [][/\ (asmPc \in {"hook", "failed"} => asmApp' = asmApp)
     /\ (asmPc = "hook" => asmPc' \in {"disable", "failed"})
     /\ (asmPc = "hook" /\ asmConfig.configureFn \in {"none", "ok"}
           => asmPc' = "disable")
     /\ (asmPc = "disable" =>
           /\ asmPc' = "enable"
           /\ \A k \in Settings :
                asmApp'.settings[k] =
                  IF \E i \in 1..Len(asmConfig.disableSettings) :
                       asmConfig.disableSettings[i] = k
                  THEN "false" ELSE asmApp.settings[k])
     /\ (asmPc = "enable" => asmPc' = "set")
     /\ (asmPc = "set" => asmPc' = "param")
     /\ (asmPc = "param" => asmPc' = "on" /\ asmApp'.settings = asmApp.settings)
     /\ (asmPc = "on" => asmPc' = "use" /\ asmApp'.settings = asmApp.settings)
     /\ (asmPc = "use" =>
           /\ asmPc' = "done"
           /\ \A k \in Settings :
                asmApp'.settings[k] = LatestWins(asmConfig, k))]_vars

\* C17 witness: a call whose hook settled has returned, for a configuration
\* that names x in the three settings lists; x has the last setter's value.
C17_Witness ==
  /\ asmPc = "done" /\ asmConfig.configureFn = "ok"
  /\ asmConfig.disableSettings = <<"x", "y">>
  /\ asmConfig.enableSettings = <<"x">>
  /\ Len(asmConfig.setters) = 2
  /\ asmApp.settings["x"] = "v2" /\ asmApp.settings["y"] = "false"

\* C18 (the claim as stated): a second call of initExpressApp with the same
\* configuration on the application the first call returned leaves it with
\* the same settings, listeners and handler stack as after the first call.
C18_AssemblyIdempotent ==
  (asmPc = "done" /\ asmCalls >= 2) => asmApp = asmFirst.app

(***************************************************************************)
(* Claims about dispatch (checked under SpecDispatch)                      *)
(***************************************************************************)
\* no route is registered on application a or on an application mounted in it
RECURSIVE NoRoutes(_)
NoRoutes(a) ==
  ~apps[a].route /\ ~apps[a].deep /\ (apps[a].sub => NoRoutes(a + 1))

\* a JSON body parser sees the request on its way from application a
RECURSIVE ParserReached(_, _)
ParserReached(a, p) ==
  \/ apps[a].json
  \/ apps[a].sub /\ p # <<>> /\ Head(p) = "sub" /\ ParserReached(a + 1, Tail(p))

\* application h is application d or is mounted, directly or not, in d
WithinOf(h, d) == d <= h /\ \A k \in AppIds : (d <= k /\ k < h) => apps[k].sub

\* the text matches /not a function/
NotAFunctionShaped(b) ==
  b.t = "string" /\ \E i \in 1..Len(b.v) : b.v[i] = " is not a function"

C20_ExtensionIsolated ==
  inv.pc = "resolved" =>
    /\ (inv.callee # 0 =>
          apps[inv.callee].extends /\ WithinOf(inv.handler, inv.callee))
    /\ ((/\ inv.handler # 0
         /\ \A d \in AppIds : apps[d].extends => ~WithinOf(inv.handler, d))
        => /\ inv.outcome.statusCode = 500
           /\ NotAFunctionShaped(inv.outcome.body))

\* C20 (amended): as stated, but the body matches "not a function" when the
\* env setting of the application is not "production".
C20_ExtensionIsolatedOutsideProduction ==
  inv.pc = "resolved" =>
    /\ (inv.callee # 0 =>
          apps[inv.callee].extends /\ WithinOf(inv.handler, inv.callee))
    /\ ((/\ inv.handler # 0
         /\ \A d \in AppIds : apps[d].extends => ~WithinOf(inv.handler, d))
        => /\ inv.outcome.statusCode = 500
           /\ (nodeEnv # "production"
                 => NotAFunctionShaped(inv.outcome.body)))

\* C20 witness: application 1 declared the extension and mounts application
\* 2; the handler of application 3, a sibling, called it and the invocation
\* resolved with 500 and the "not a function" text.
C20_Witness ==
  /\ inv.pc = "resolved" /\ inv.app = 3 /\ inv.handler = 3 /\ inv.callee = 0
  /\ apps[1].extends /\ apps[1].sub /\ ~apps[2].sub
  /\ inv.outcome.statusCode = 500
  /\ NotAFunctionShaped(inv.outcome.body)


(***************************************************************************)
(* Claims about the operations of MemoryStore (checked under SpecStoreOps, *)
(* those about their callbacks under SpecCallbacks and SpecCallbacksFair)   *)
(***************************************************************************)
\* the step is a call of the named operation
IsCall(name) == opLast'.name = name /\ opLast'.phase = "call"

\* the cookie a session carries is live at the current time
Unexpired(s) ==
  opCookies[opObjs[s].cookie] = 0 \/ opCookies[opObjs[s].cookie] > opNow

\* C23: touch(id, s) on an active entry replaces the cookie of the stored
\* session by the cookie of s and nothing else: its other field, the other
\* Session objects and every entry of the store stay as they were; touch on
\* an id with no entry changes nothing and creates no entry.
C23_TouchReplacesOnlyCookie ==
  [][IsCall("touch") =>
       LET id == opLast'.id
           s == opLast'.s
           cur == opSessions[id]
       IN /\ foundUnder(id) = "active" =>
               /\ opSessions' = opSessions
               /\ opObjs'[cur].cookie = opObjs[s].cookie
               /\ opObjs'[cur].data = opObjs[cur].data
               /\ \A r \in OpRefs \ {cur} : opObjs'[r] = opObjs[r]
          /\ foundUnder(id) = "absent" =>
               /\ opSessions' = opSessions
               /\ opObjs' = opObjs]_vars

\* C23 witness: an active session was touched with another session and now
\* carries that session's cookie, not the one it was built with.
C23_Witness ==
  /\ opLast.name = "touch" /\ opLast.phase = "call" /\ opLast.before = "active"
  /\ opSessions[opLast.id] # 0
  /\ opSessions[opLast.id] # opLast.s
  /\ opObjs[opSessions[opLast.id]].cookie = opObjs[opLast.s].cookie
  /\ opObjs[opSessions[opLast.id]].cookie # opSessions[opLast.id]

\* C24: touch(id, s) on an entry whose cookie has expired deletes the entry
\* and renews nothing, whatever cookie s carries.
C24_TouchNeverRevives ==
  [][IsCall("touch") /\ foundUnder(opLast'.id) = "expired" =>
       /\ opSessions'[opLast'.id] = 0
       /\ \A i \in OpIds \ {opLast'.id} : opSessions'[i] = opSessions[i]
       /\ opObjs' = opObjs]_vars

\* C24 witness: an expired entry was touched with a session whose cookie is
\* live, and the entry is gone.
C24_Witness ==
  /\ opLast.name = "touch" /\ opLast.phase = "call"
  /\ opLast.before = "expired"
  /\ Unexpired(opLast.s)
  /\ opSessions[opLast.id] = 0

\* C25: destroy(id) leaves no entry under id and every other entry and
\* every session as it was; on an absent id it changes nothing, and a
\* second destroy changes nothing more.
C25_DestroyRemovesOnlyId ==
  [][IsCall("destroy") =>
       LET id == opLast'.id
       IN /\ opSessions'[id] = 0
          /\ \A i \in OpIds \ {id} : opSessions'[i] = opSessions[i]
          /\ opObjs' = opObjs
          /\ opSessions[id] = 0 => opSessions' = opSessions
          /\ afterDestroy(opSessions', id) = opSessions']_vars

\* C25 witness: an entry, expired or not, was destroyed while the other id
\* keeps its entry.
C25_Witness ==
  /\ opLast.name = "destroy" /\ opLast.phase = "call"
  /\ opLast.before \in {"active", "expired"}
  /\ opSessions[opLast.id] = 0
  /\ \E i \in OpIds \ {opLast.id} : opSessions[i] # 0

\* the callbacks waiting to run
Waiting == {opTicks[i] : i \in DOMAIN opTicks}
             \cup {opImmediates[i] : i \in DOMAIN opImmediates}

\* a call made with a callback returns with the callback waiting and not
\* run, and with its change of the store made
CallDefers ==
  opCalls' # opCalls =>
    /\ opRuns' = opRuns
    /\ \E cb \in Waiting' : cb.k = opCalls' /\ cb.op = opLast'.name
    /\ IsCall("commit") => opSessions'[opLast'.id] = opLast'.s
    /\ IsCall("destroy") => opSessions'[opLast'.id] = 0
    /\ IsCall("clear") => \A i \in OpIds : opSessions'[i] = 0
    /\ IsCall("touch") /\ foundUnder(opLast'.id) = "active" =>
         opObjs'[opSessions[opLast'.id]].cookie = opObjs[opLast'.s].cookie

\* a callback runs in a step of its own, after the call that queued it, and
\* finds the store as the calls left it
RunsLater ==
  opRuns' # opRuns =>
    /\ opCalls' = opCalls
    /\ \A k \in DOMAIN opRuns : opRuns'[k] # opRuns[k] => k <= opCalls
    /\ opSessions' = opSessions /\ opObjs' = opObjs

\* C28: a store operation called with a callback never runs it inside the
\* call; the callback runs exactly once, later; commit, destroy, touch and
\* clear have changed the store when they return.
C28_CallbacksDeferredOnce ==
  /\ [][CallDefers /\ RunsLater]_vars
  /\ [](\A k \in DOMAIN opRuns : opRuns[k] <= 1)
  /\ \A k \in 1..MaxOpCalls : (opCalls >= k) ~> (opRuns[k] = 1)

\* C28 witness: the callback of a commit has run once, after the call, and
\* finds the committed entry.
C28_Witness ==
  /\ opLast.name = "commit" /\ opLast.phase = "callback"
  /\ opRuns[opLast.id] = 1
  /\ \E i \in OpIds : opSessions[i] # 0

\* C29: every callback of get, commit, destroy, touch and clear is run with
\* null or undefined as its first argument.
C29_FirstArgumentAbsent ==
  \A cb \in Waiting :
    cb.op \in {"get", "commit", "destroy", "touch", "clear"} =>
      firstArg(cb) \in {"null", "undefined"}


(***************************************************************************)
(* Claims about createSession and Session.reload (checked under SpecReload)*)
(***************************************************************************)
\* C26: createSession leaves on the session a cookie with the expires the
\* stored cookie had and with the original maxAge it had, whatever the time
\* of the call.
C26_RebuildKeepsExpiresAndOriginal ==
  [][rlLast'.name = "createSession" =>
       /\ rlCookie'.hasExpires = rlCookie.hasExpires
       /\ rlCookie'.expires = rlCookie.expires
       /\ getOriMaxAge(rlCookie') = getOriMaxAge(rlCookie)]_vars

\* C27: reload returns with req.session as it was; when its callback runs,
\* req.session is a session rebuilt with the same expires if the store held
\* an active session, and is unchanged if it held none.
C27_ReloadRebuilds ==
  [][/\ rlLast'.name = "reload" => rlReq' = rlReq /\ rlCookie' = rlCookie
     /\ rlLast'.name = "callback" =>
          IF rlLast'.session = "object"
          THEN /\ rlReq' = "rebuilt"
               /\ rlCookie'.hasExpires = rlCookie.hasExpires
               /\ rlCookie'.expires = rlCookie.expires
          ELSE rlReq' = rlReq /\ rlCookie' = rlCookie]_vars


(***************************************************************************)
(* Claims about res.send (checked under SpecSend)                          *)
(***************************************************************************)
\* C30: after send, a request that was fresh has status 304, and a response
\* whose status is then 204 or 304 was ended with no data, carries none of
\* Content-Type, Content-Length and Transfer-Encoding, and resolved with an
\* empty body, whatever was passed to send.
C30_FreshnessBeforeStripping ==
  sdPc = "sent" =>
    /\ sdLast.found => sdStatus = 304
    /\ sdStatus \in {204, 304} =>
         /\ sdEnded.data = <<>>
         /\ sdHeaders \cap StrippedHeaders = {}
         /\ sdOutcome = [statusCode |-> sdStatus, body |-> Str(<<>>)]

\* C30 witness: a fresh GET whose handler left the status at 200 and sent
\* text resolved with 304 and an empty body.
C30_Witness ==
  /\ sdPc = "sent" /\ sdReq.method = "GET"
  /\ sdLast.found /\ sdLast.status = 200
  /\ sdLast.chunk = [t |-> "string", text |-> <<"hey">>]
  /\ sdEnded = [given |-> TRUE, data |-> <<>>]
  /\ sdOutcome = [statusCode |-> 304, body |-> Str(<<>>)]


\* C31: for a HEAD request send ends the response with no data, so nothing
\* is written and the outcome has the status of the response and an empty
\* body; the headers are those send computes for the same chunk on a GET
\* request.
C31_HeadEndsWithoutBody ==
  sdPc = "sent" /\ sdReq.method = "HEAD" =>
    /\ ~sdEnded.given
    /\ sdOutcome = [statusCode |-> sdStatus, body |-> Str(<<>>)]
    /\ LET asGet == send(sdLast.chunk, [sdReq EXCEPT !.method = "GET"],
                         sdLast.status, sdLast.headers)
       IN /\ sdHeaders = asGet.headers
          /\ sdStatus = asGet.statusCode
    /\ sdStatus \in {200, 404} /\ sdLast.chunk.t # "undefined" =>
         {"Content-Length", "ETag"} \subseteq sdHeaders

\* C31 witness: a HEAD request whose handler sent text with status 200
\* resolved with an empty body and carries the headers of the text.
C31_Witness ==
  /\ sdPc = "sent" /\ sdReq.method = "HEAD"
  /\ sdLast.chunk = [t |-> "string", text |-> <<"hey">>]
  /\ sdStatus = 200
  /\ {"Content-Type", "Content-Length", "ETag"} \subseteq sdHeaders
  /\ sdOutcome = [statusCode |-> 200, body |-> Str(<<>>)]

(***************************************************************************)
(* Claims about an extension declared by a parent application and by the   *)
(* application mounted in it (checked under SpecOverride)                  *)
(***************************************************************************)
\* C21: when the parent and the mounted application both declare the
\* extension, an invocation handled by a route of the mounted application
\* gets the mounted application's version and one handled by a route of the
\* parent, "/" or "/sub/foo", gets the parent's.
C21_EachUsesItsOwn ==
  /\ inv.pc = "resolved"
  /\ apps[Parent].extends /\ apps[Mounted].extends
  => /\ inv.handler # 0 =>
          /\ inv.callee = inv.handler
          /\ inv.outcome = [statusCode |-> 200,
                            body |-> Str(returned(inv.handler))]
     /\ /\ inv.app = Parent /\ apps[Parent].sub /\ apps[Mounted].route
        /\ inv.event.path = <<"sub">>
        => inv.handler = Mounted
     /\ /\ inv.app = Parent /\ inv.event.path = <<"sub", "foo">>
        /\ apps[Parent].deep
        => inv.handler = Parent

\* C21 witness: with the application mounted at "/sub" and both versions
\* declared, the parent's route "/sub/foo" answered with the parent's
\* version.
C21_Witness ==
  /\ inv.pc = "resolved" /\ inv.app = Parent
  /\ apps[Parent].extends /\ apps[Mounted].extends
  /\ apps[Parent].sub /\ apps[Mounted].route
  /\ inv.event.path = <<"sub", "foo">>
  /\ inv.outcome = [statusCode |-> 200, body |-> Str(<<"tobi">>)]


(***************************************************************************)
(* Claims about param handlers (checked under SpecRoute)                   *)
(***************************************************************************)
\* the names a params entry lists
Listed(param) == {param.names[i] : i \in DOMAIN param.names}

\* some registered route matches the path
Matched(p) == \E i \in DOMAIN rpRoutes : rpRoutes[i].at = p[1]

\* C22: the handler of a params entry runs for every name the entry lists:
\* an invocation answered by a route whose parameter is listed ran the
\* handler first and resolves 200 with "number:" and the value; with the
\* names ["id","uid"] and a matching route, "/user/123" and "/post/123"
\* resolve 200 with "number:123"; a path that matches no route resolves 404.
C22_ArrayRegistersEveryName ==
  rpInv.pc = "resolved" =>
    /\ /\ rpInv.at # 0
       /\ rpRoutes[rpInv.at].key \in Listed(rpParam)
       => /\ rpInv.ran
          /\ rpInv.outcome =
               [statusCode |-> 200,
                body |-> Str(<<"number", ":", rpInv.path[2]>>)]
    /\ /\ rpParam = [array |-> TRUE, names |-> <<"id", "uid">>]
       /\ rpInv.path[2] = "123" /\ Matched(rpInv.path)
       => rpInv.outcome = [statusCode |-> 200,
                           body |-> Str(<<"number", ":", "123">>)]
    /\ ~Matched(rpInv.path) => rpInv.outcome.statusCode = 404

\* C22 witness: with the names ["id","uid"] and the routes "/post/:id" and
\* "/user/:uid", "/user/123" resolved 200 with "number:123".
C22_Witness ==
  /\ rpInv.pc = "resolved"
  /\ rpParam = [array |-> TRUE, names |-> <<"id", "uid">>]
  /\ rpRoutes = <<[at |-> "post", key |-> "id"], [at |-> "user", key |-> "uid"]>>
  /\ rpInv.path = <<"user", "123">>
  /\ rpInv.ran
  /\ rpInv.outcome = [statusCode |-> 200, body |-> Str(<<"number", ":", "123">>)]


(***************************************************************************)
(* Claims about the wrapped write and end (checked under SpecCapture)      *)
(***************************************************************************)
RECURSIVE joined(_)
\* the texts of the chunks of log, one after the other
joined(log) ==
  IF log = <<>> THEN <<>> ELSE toText(Head(log)) \o joined(Tail(log))

\* C32: up to and at the first end() of an invocation, the accumulator is
\* the texts, in call order, of the chunks passed to write() and of the
\* chunk passed to that end() when there is one, each once, whatever the
\* shape of the calls.
C32_AccumulatorIsConcatenation ==
  [][\A i \in CaptureInvs :
       cpEnds[i] = 0 => cpBody'[i] = joined(cpGhost'[i].log)]_vars

\* C32 witness: a string and a Buffer were written and end was called with
\* a third chunk; the accumulator holds the three texts in order.
C32_Witness ==
  /\ cpEnds[1] = 1
  /\ cpGhost[1].log = <<[buf |-> FALSE, units |-> <<"a">>],
                        [buf |-> TRUE, units |-> <<"b", "FF">>],
                        [buf |-> FALSE, units |-> <<"{", "}">>]>>
  /\ cpBody[1] = <<"a", "b", "FFFD", "{", "}">>

\* C33: the outcome of each invocation is made of the chunks passed to its
\* own response up to its first end() and of its own response's status at
\* that end, however the calls of the two invocations interleave.
C33_OwnChunksAndStatus ==
  \A i \in CaptureInvs :
    cpPromise[i] = "resolved" =>
      cpOutcome[i] = EndOutcome(joined(cpGhost[i].log), cpGhost[i].status,
                                ctxOf(i))

\* C33 witness: both invocations resolved, each with chunks of its own, with
\* different bodies and different statuses.
C33_Witness ==
  /\ cpPromise[1] = "resolved" /\ cpPromise[2] = "resolved"
  /\ cpGhost[1].log # <<>> /\ cpGhost[2].log # <<>>
  /\ joined(cpGhost[1].log) # <<>> /\ joined(cpGhost[2].log) # <<>>
  /\ cpOutcome[1].body # cpOutcome[2].body
  /\ cpOutcome[1].statusCode = 404 /\ cpOutcome[2].statusCode = 200

\* C34: the promise of an invocation is resolved exactly when end() was
\* called on its response, it becomes so in the first call of end(), it is
\* never rejected, and while end() is not called it stays pending.
C34_ResolvedIffEnded ==
  /\ [](\A i \in CaptureInvs :
          /\ cpPromise[i] \in {"pending", "resolved"}
          /\ cpPromise[i] = "resolved" <=> cpEnds[i] >= 1)
  /\ [][\A i \in CaptureInvs :
          cpPromise'[i] # cpPromise[i] => cpEnds[i] = 0 /\ cpEnds'[i] = 1]_vars

\* C34 witness: one invocation wrote three chunks and is pending, no end()
\* having been called on either response.
C34_Witness ==
  /\ cpCalls = MaxCaptureCalls /\ Len(cpGhost[1].log) = MaxCaptureCalls
  /\ cpEnds[1] = 0 /\ cpPromise[1] = "pending"
  /\ cpEnds[2] = 0 /\ cpPromise[2] = "pending"

\* C37 (the claim as stated): an end() called with a chunk that is not
\* empty hands that chunk to the unwrapped response once.
C37_UnderlyingReceivesOnce ==
  [][\A i \in CaptureInvs, args \in EndShapes :
       (/\ CaptureEnd(i, args)
        /\ endData(args).given /\ endData(args).chunk.units # <<>>)
         => cpWire'[i] = cpWire[i] + Len(endData(args).chunk.units)]_vars

(***************************************************************************)
(* A claim about store.generate (checked under SpecStores)                 *)
(***************************************************************************)
\* C35: a step in which generate gives a request a new session id, called
\* directly or by the callback regenerate scheduled, leaves every store as
\* it is, with no entry under the new id, and the request carries the new
\* session; an id gets an entry only in a commit of a session of that id.
C35_GeneratedNotStored ==
  [][/\ \A m \in Middlewares :
          reqOf'[m].sessionId # reqOf[m].sessionId =>
            /\ stores' = stores
            /\ \A st \in Middlewares : stores'[st][reqOf'[m].sessionId] = 0
            /\ reqOf'[m].session # 0
            /\ objs'[reqOf'[m].session].alive
            /\ objs'[reqOf'[m].session].id = reqOf'[m].sessionId
     /\ \A st \in Middlewares, id \in SessionIds :
          stores[st][id] = 0 /\ stores'[st][id] # 0 =>
            \E m \in Middlewares, r \in Refs : Commit(m, r) /\ objs[r].id = id]_vars

\* C35 witness: the request of the first middleware was given a session,
\* regenerate replaced it, and the store has no entry under the second id.
C35_Witness ==
  /\ objs[1].alive /\ objs[1].req = 1
  /\ objs[2].alive /\ objs[2].req = 1
  /\ reqOf[1] = [sessionId |-> 2, session |-> 2]
  /\ stores[1][2] = 0 /\ ticks = <<>>

(***************************************************************************)
(* A claim about the callback of MemoryStore.get (checked under SpecGet)   *)
(***************************************************************************)
\* the step runs the callback of a get
GetCallbackRuns ==
  opRuns' # opRuns /\ opLast'.phase = "callback" /\ opLast'.name = "get"

\* the callbacks of the calls made after the get whose callback runs, other
\* than those handed to setImmediate, have run
LaterCallbacksRan ==
  \A k \in 1..opCalls :
    (k > opLast'.id /\ \A j \in DOMAIN opImmediates : opImmediates[j].k # k)
      => opRuns[k] >= 1

\* get(id, callback) hands setImmediate what getSession finds under id at
\* that moment, and an expired entry is deleted then
GetQueuesWhatIsStored ==
  IsCall("get") =>
    LET id == opLast'.id
        g == opImmediates'[Len(opImmediates')]
    IN /\ g.op = "get" /\ g.k = opCalls'
       /\ g.ref = IF foundUnder(id) = "active" THEN opSessions[id] ELSE 0
       /\ opSessions'[id] = g.ref
       /\ firstArg(g) = "null"
       /\ g.args[2] = IF g.ref = 0 THEN "undefined" ELSE "object"

\* C36 (the claim as stated): the get callback is passed the store's
\* content for the id as it was when get was called, the Session object
\* with the Cookie it had then, whatever was called in between, and the
\* callbacks of the calls made in between have run before it.
C36_GetDeliversContentAtCall ==
  [][/\ GetQueuesWhatIsStored
     /\ GetCallbackRuns =>
          /\ opLast'.s = Head(opImmediates).ref
          /\ opLast'.s # 0 => opObjs'[opLast'.s].cookie = opLast'.cookie
          /\ LaterCallbacksRan]_vars

\* C36 (amended): the get callback is passed the Session object found when
\* get was called; no call but touch alters a Session object, and touch
\* alters only the Cookie of the entry it finds, so the object passed has
\* the Cookie of the last touch that found it; the callbacks of the calls
\* made in between have run before it.
C36_GetDeliversObjectAtCall ==
  [][/\ GetQueuesWhatIsStored
     /\ GetCallbackRuns =>
          /\ opLast'.s = Head(opImmediates).ref
          /\ LaterCallbacksRan
     /\ \A r \in OpRefs :
          opObjs'[r] # opObjs[r] =>
            /\ IsCall("touch") /\ foundUnder(opLast'.id) = "active"
            /\ r = opSessions[opLast'.id]
            /\ opObjs'[r] = [opObjs[r] EXCEPT !.cookie = opObjs[opLast'.s].cookie]]_vars

\* C36 witness: a get callback ran after the callback of a later call, and
\* the Session object it was passed no longer has the Cookie it had when get
\* was called.
C36_Witness ==
  /\ opLast.phase = "callback" /\ opLast.name = "get"
  /\ opLast.s # 0
  /\ opObjs[opLast.s].cookie # opLast.cookie
  /\ \E k \in 1..opCalls : k > opLast.id /\ opRuns[k] = 1
====
